---- MODULE Spec2Model ----
(***************************************************************************)
(* Model of the receipt-text extraction engine of copilot-finance-back     *)
(* (OCRService.extractMovementData and the helpers it calls).              *)
(*                                                                         *)
(* Texts are sequences of one-character strings.  Regular expressions are  *)
(* sequences of items matched by a backtracking matcher with the           *)
(* priorities of the ECMAScript matcher (greedy: longest count first,      *)
(* lazy: shortest count first, alternatives left to right).                *)
(* Instants are hours since 1970-01-01T00:00Z.  A decimal number is a      *)
(* record [ip, fp]: integer part and the fraction digits without trailing  *)
(* zeros.  An optional value is a sequence of length 0 (absent) or 1.      *)
(***************************************************************************)
EXTENDS Integers, Sequences, FiniteSets, TLC

\* ------------------------------------------------------------------------
\* Characters
\* ------------------------------------------------------------------------

DigitChars == <<"0", "1", "2", "3", "4", "5", "6", "7", "8", "9">>

Digits == {DigitChars[k] : k \in 1..10}

DigitVal(c) == (CHOOSE k \in 1..10 : DigitChars[k] = c) - 1

LowerChars ==
  <<"a", "b", "c", "d", "e", "f", "g", "h", "i", "j", "k", "l", "m",
    "n", "o", "p", "q", "r", "s", "t", "u", "v", "w", "x", "y", "z",
    "á", "é", "í", "ó", "ú", "ñ">>

UpperChars ==
  <<"A", "B", "C", "D", "E", "F", "G", "H", "I", "J", "K", "L", "M",
    "N", "O", "P", "Q", "R", "S", "T", "U", "V", "W", "X", "Y", "Z",
    "Á", "É", "Í", "Ó", "Ú", "Ñ">>

NLetters == Len(LowerChars)

\* String.prototype.toLowerCase, one character
ToLower(c) ==
  IF \E k \in 1..NLetters : UpperChars[k] = c
  THEN LowerChars[CHOOSE k \in 1..NLetters : UpperChars[k] = c]
  ELSE c

ToUpper(c) ==
  IF \E k \in 1..NLetters : LowerChars[k] = c
  THEN UpperChars[CHOOSE k \in 1..NLetters : LowerChars[k] = c]
  ELSE c

LowerCase(s) == [k \in 1..Len(s) |-> ToLower(s[k])]

\* \s of a regular expression, and the characters String.prototype.trim strips
WhiteSpace == {" ", "\n", "\t", "\r"}

\* the characters the dot of a regular expression does not match
LineTerminators == {"\n", "\r"}

AsciiUpper == {UpperChars[k] : k \in 1..26}

AsciiLower == {LowerChars[k] : k \in 1..26}

\* \w of a regular expression
WordChars == AsciiUpper \cup AsciiLower \cup Digits \cup {"_"}

\* ------------------------------------------------------------------------
\* Regular expressions
\* ------------------------------------------------------------------------

\* an unbounded quantifier
Unbounded == 0 - 1

\* a quantified character class: [set]{min,max}, greedy or lazy
Cls(S, lo, hi, greedy) ==
  [t |-> "cls", neg |-> FALSE, set |-> S, min |-> lo, max |-> hi,
   greedy |-> greedy, width |-> 1]

\* a quantified negated class, as the dot: [^set]{min,max}
NotCls(S, lo, hi, greedy) ==
  [t |-> "cls", neg |-> TRUE, set |-> S, min |-> lo, max |-> hi,
   greedy |-> greedy, width |-> 1]

One(S) == Cls(S, 1, 1, TRUE)

\* a literal under the i flag: each character in either case
LitCI(w) == [k \in 1..Len(w) |-> One({ToLower(w[k]), ToUpper(w[k])})]

\* a literal, case-sensitive
Lit(w) == [k \in 1..Len(w) |-> One({w[k]})]

\* a greedy quantified group (?:items){min,max} of one-character items
Grp(items, lo, hi) ==
  [t |-> "grp", items |-> items, min |-> lo, max |-> hi, greedy |-> TRUE,
   width |-> Len(items)]

\* an alternation (?:a|b|c), each alternative a sequence of items
Alt(alts) == [t |-> "alt", alts |-> alts]

\* the $ assertion (no m flag): end of input
EndOfInput == [t |-> "end"]

InClass(c, it) == (c \in it.set) # it.neg

\* whether the one-character items of a group match s at i
RECURSIVE FixedMatch(_, _, _, _)
FixedMatch(items, k, s, i) ==
  IF k > Len(items) THEN TRUE
  ELSE /\ i <= Len(s)
       /\ InClass(s[i], items[k])
       /\ FixedMatch(items, k + 1, s, i + 1)

UnitMatches(it, s, i) ==
  IF it.t = "cls" THEN i <= Len(s) /\ InClass(s[i], it)
  ELSE FixedMatch(it.items, 1, s, i)

Indices(n) == [i \in 1..n |-> i]

\* the first element of a sequence of numbers, or d when it is empty
FirstOr(q, d) == IF q = <<>> THEN d ELSE Head(q)

\* the largest number of repetitions of a group at position i
RECURSIVE GroupReps(_, _, _, _)
GroupReps(it, s, i, n) ==
  IF (it.max # Unbounded /\ n >= it.max) \/ ~UnitMatches(it, s, i)
  THEN n
  ELSE GroupReps(it, s, i + it.width, n + 1)

\* the largest number of repetitions of item it at position i, at most it.max
MaxReps(it, s, i) ==
  IF it.t = "grp" THEN GroupReps(it, s, i, 0)
  ELSE IF ~UnitMatches(it, s, i) THEN 0
  ELSE LET room == Len(s) - i + 1
           lim == IF it.max # Unbounded /\ it.max < room THEN it.max ELSE room
           stop == SelectSeq(Indices(lim), LAMBDA j : ~InClass(s[i + j - 1], it))
       IN FirstOr(stop, lim + 1) - 1

RECURSIVE SumSeq(_)
SumSeq(q) == IF q = <<>> THEN 0 ELSE Head(q) + SumSeq(Tail(q))

\* Match items[k..] at position i of s: <<>> when no match, otherwise
\* <<lens>> with the number of characters each item consumed, for the first
\* match in the matcher's priority order.
RECURSIVE MatchItems(_, _, _, _)
RECURSIVE TryCount(_, _, _, _, _)
RECURSIVE TryAlts(_, _, _, _, _)
MatchItems(items, k, s, i) ==
  IF k > Len(items) THEN << <<>> >>
  ELSE LET it == items[k] IN
    IF it.t = "end"
    THEN IF i = Len(s) + 1
         THEN LET rest == MatchItems(items, k + 1, s, i) IN
              IF rest = <<>> THEN <<>> ELSE << <<0>> \o rest[1] >>
         ELSE <<>>
    ELSE IF it.t = "alt"
    THEN TryAlts(items, k, s, i, 1)
    ELSE LET r == MaxReps(it, s, i) IN
         IF r < it.min THEN <<>>
         ELSE IF it.greedy THEN TryCount(items, k, s, i, r)
         ELSE \* lazy: the smallest count after which the rest matches
              LET ok == SelectSeq([j \in 1..(r - it.min + 1) |-> it.min + j - 1],
                          LAMBDA n : MatchItems(items, k + 1, s, i + n * it.width) # <<>>)
              IN IF ok = <<>> THEN <<>>
                 ELSE << <<ok[1] * it.width>>
                         \o MatchItems(items, k + 1, s, i + ok[1] * it.width)[1] >>

\* greedy: the largest count, from n down, after which the rest matches
TryCount(items, k, s, i, n) ==
  LET it == items[k]
      rest == MatchItems(items, k + 1, s, i + n * it.width)
  IN IF rest # <<>> THEN << <<n * it.width>> \o rest[1] >>
     ELSE IF n > it.min THEN TryCount(items, k, s, i, n - 1)
     ELSE <<>>

TryAlts(items, k, s, i, a) ==
  IF a > Len(items[k].alts) THEN <<>>
  ELSE LET alt == items[k].alts[a]
           m == MatchItems(alt \o SubSeq(items, k + 1, Len(items)), 1, s, i)
       IN IF m # <<>>
          THEN << <<SumSeq(SubSeq(m[1], 1, Len(alt)))>>
                  \o SubSeq(m[1], Len(alt) + 1, Len(m[1])) >>
          ELSE TryAlts(items, k, s, i, a + 1)

\* the positions of s, from p on, at which re matches
MatchStarts(re, s, p) ==
  SelectSeq([k \in 1..(Len(s) + 2 - p) |-> p + k - 1],
            LAMBDA q : MatchItems(re, 1, s, q) # <<>>)

\* the match of re that starts at position q of s
MatchAt(re, s, q) == [start |-> q, lens |-> MatchItems(re, 1, s, q)[1]]

\* the match at the first of the given start positions, if there is one
FirstMatch(re, s, starts) ==
  IF starts = <<>> THEN <<>> ELSE << MatchAt(re, s, starts[1]) >>

\* RegExp exec from position p: the leftmost match at or after p, as
\* <<[start, lens]>>, or <<>>
ExecFrom(re, s, p) == FirstMatch(re, s, MatchStarts(re, s, p))

MatchEnd(m) == m.start + SumSeq(m.lens)

\* where the search after the match m starts: at its end, one further
\* after an empty match
NextStart(m) == IF MatchEnd(m) = m.start THEN m.start + 1 ELSE MatchEnd(m)

MatchText(s, m) == SubSeq(s, m.start, MatchEnd(m) - 1)

\* the text of capture group g of a match whose groups are its items
GroupText(s, m, g) ==
  LET from == m.start + SumSeq(SubSeq(m.lens, 1, g - 1))
  IN SubSeq(s, from, from + m.lens[g] - 1)

\* every match of a g-flagged expression, left to right, each search
\* starting where the previous match ended (one further after an empty match)
RECURSIVE NextMatches(_, _, _)
RECURSIVE MatchesAfter(_, _, _, _)
NextMatches(re, s, starts) ==
  IF starts = <<>> THEN <<>>
  ELSE MatchesAfter(re, s, starts, MatchAt(re, s, starts[1]))

\* the match m and every match that follows it
MatchesAfter(re, s, starts, m) ==
  <<m>> \o NextMatches(re, s, SelectSeq(starts, LAMBDA q : q >= NextStart(m)))

AllMatchesFrom(re, s, p) == NextMatches(re, s, MatchStarts(re, s, p))

\* RegExp test / a non-global String match: is there a match anywhere
Test(re, s) == ExecFrom(re, s, 1) # <<>>

\* ------------------------------------------------------------------------
\* Strings
\* ------------------------------------------------------------------------

\* String.prototype.replace(/\s+/g, ' '): every run of white space becomes
\* one space
CollapseWhiteSpace(s) ==
  LET kept == SelectSeq(Indices(Len(s)),
                LAMBDA i : s[i] \notin WhiteSpace \/ i = 1 \/ s[i - 1] \notin WhiteSpace)
  IN [k \in 1..Len(kept) |-> IF s[kept[k]] \in WhiteSpace THEN " " ELSE s[kept[k]]]

\* String.prototype.trim
Trim(s) ==
  LET black == SelectSeq(Indices(Len(s)), LAMBDA i : s[i] \notin WhiteSpace)
  IN IF black = <<>> THEN <<>> ELSE SubSeq(s, black[1], black[Len(black)])

TrimLeft(s) ==
  LET black == SelectSeq(Indices(Len(s)), LAMBDA i : s[i] \notin WhiteSpace)
  IN IF black = <<>> THEN <<>> ELSE SubSeq(s, black[1], Len(s))

\* String.prototype.split(sep), sep one character
Split(s, sep) ==
  LET at == SelectSeq(Indices(Len(s)), LAMBDA i : s[i] = sep)
  IN [k \in 1..(Len(at) + 1) |->
        SubSeq(s, IF k = 1 THEN 1 ELSE at[k - 1] + 1,
                  IF k > Len(at) THEN Len(s) ELSE at[k] - 1)]

\* String.prototype.includes
Includes(s, w) ==
  \E i \in 1..(Len(s) - Len(w) + 1) : SubSeq(s, i, i + Len(w) - 1) = w

\* String.prototype.replace(/,/g, '')
RemoveCommas(s) == SelectSeq(s, LAMBDA c : c # ",")

\* ------------------------------------------------------------------------
\* Numbers
\* ------------------------------------------------------------------------

\* integer parts are kept up to this value; every larger number is the same
\* to the code, which accepts nothing above 999999999
Saturated == 1000000000

\* the digits of s from position i on
DigitRun(s, i) ==
  LET stop == SelectSeq(Indices(Len(s)), LAMBDA j : j >= i /\ s[j] \notin Digits)
  IN SubSeq(s, i, FirstOr(stop, Len(s) + 1) - 1)

RECURSIVE IntOf(_, _)
IntOf(ds, acc) ==
  IF ds = <<>> THEN acc
  ELSE IF acc >= Saturated \div 10 THEN Saturated
  ELSE IntOf(Tail(ds), acc * 10 + DigitVal(Head(ds)))

RECURSIVE StripZeros(_)
StripZeros(ds) ==
  IF ds # <<>> /\ ds[Len(ds)] = "0"
  THEN StripZeros(SubSeq(ds, 1, Len(ds) - 1))
  ELSE ds

\* parseFloat: the longest prefix, after leading white space, that is a
\* decimal literal digits[.digits]; <<>> is NaN.  (Signs and exponents do
\* not occur in the strings the engine passes.)
ParseFloat(str) ==
  LET s == TrimLeft(str)
      ip == DigitRun(s, 1)
      dot == Len(ip) + 1
      fp == IF dot <= Len(s) /\ s[dot] = "." THEN DigitRun(s, dot + 1) ELSE <<>>
  IN IF ip = <<>> /\ fp = <<>> THEN <<>>
     ELSE LET n == IntOf(ip, 0) IN
          << [ip |-> n, fp |-> IF n >= Saturated THEN <<>> ELSE StripZeros(fp)] >>

\* a < b on fraction digit sequences without trailing zeros
RECURSIVE FracLess(_, _)
FracLess(a, b) ==
  IF b = <<>> THEN FALSE
  ELSE IF a = <<>> THEN TRUE
  ELSE IF Head(a) # Head(b) THEN DigitVal(Head(a)) < DigitVal(Head(b))
  ELSE FracLess(Tail(a), Tail(b))

NumLess(a, b) == a.ip < b.ip \/ (a.ip = b.ip /\ FracLess(a.fp, b.fp))

NumLeq(a, b) == a = b \/ NumLess(a, b)

Whole(n) == [ip |-> n, fp |-> <<>>]

\* ------------------------------------------------------------------------
\* Amount extractor
\* ------------------------------------------------------------------------

\* token-level range of an amount candidate
MinAmount == 100

MaxAmount == 999999999

\* tier 2 and tier 3 keep only numbers of at least this value
BigNumber == 1000

\* tier 2 scans this many lines at the end of the text
TailLines == 10

ConfTotalLine == 95

ConfTailLines == 75

ConfAnyLine == 50

\* a candidate of one tier beats another by confidence alone only when the
\* confidences differ by more than this
TieWindow == 10

Separator == {".", ","}

\* /([0-9]{1,3}(?:[.,][0-9]{3})*[.,][0-9]{2})/g
NumberGrouped ==
  <<Cls(Digits, 1, 3, TRUE),
    Grp(<<One(Separator), One(Digits), One(Digits), One(Digits)>>, 0, Unbounded),
    One(Separator), Cls(Digits, 2, 2, TRUE)>>

\* /([0-9]{3,}[.,][0-9]{2})/g
NumberDecimal ==
  <<Cls(Digits, 3, Unbounded, TRUE), One(Separator), Cls(Digits, 2, 2, TRUE)>>

\* whole numbers of three digits taken as well
NumberIntegerThree == <<Cls(Digits, 3, Unbounded, TRUE)>>

\* /([0-9]{4,})/g
NumberInteger == <<Cls(Digits, 4, Unbounded, TRUE)>>

numberPatterns == <<NumberGrouped, NumberDecimal, NumberInteger>>

\* the texts of the matches ms of s
TextsOf(s, ms) == [j \in 1..Len(ms) |-> MatchText(s, ms[j])]

\* the texts String.prototype.matchAll yields for each pattern in turn
RECURSIVE MatchTextsOf(_, _, _)
MatchTextsOf(patterns, k, line) ==
  IF k > Len(patterns) THEN <<>>
  ELSE TextsOf(line, AllMatchesFrom(patterns[k], line, 1))
         \o MatchTextsOf(patterns, k + 1, line)

\* a comma in the decimal position (third from the end) becomes the decimal
\* point; every other comma is dropped
NormalizeAmountStr(str) ==
  LET n == Len(str) IN
  IF /\ n >= 3
     /\ str[n - 2] = "," /\ str[n - 1] # "," /\ str[n] # ","
     /\ str[n - 1] \in Digits /\ str[n] \in Digits
  THEN RemoveCommas([str EXCEPT ![n - 2] = "."])
  ELSE RemoveCommas(str)

\* the range check without its upper end
InAmountRangeNoMax(a) == a.ip >= MinAmount

\* amount >= 100 && amount <= 999999999
InAmountRange(a) ==
  /\ a.ip >= MinAmount
  /\ NumLeq(a, Whole(MaxAmount))

\* numbers with amount pushed, when it is a number, in range and new
PushNumber(numbers, amount) ==
  IF /\ amount # <<>>
     /\ InAmountRange(amount[1])
     /\ ~\E j \in 1..Len(numbers) : numbers[j] = amount[1]
  THEN Append(numbers, amount[1])
  ELSE numbers

RECURSIVE PushNumbers(_, _, _)
PushNumbers(strs, k, numbers) ==
  IF k > Len(strs) THEN numbers
  ELSE PushNumbers(strs, k + 1,
         PushNumber(numbers, ParseFloat(NormalizeAmountStr(strs[k]))))

extractNumbersFromLine(line) ==
  PushNumbers(MatchTextsOf(numberPatterns, 1, line), 1, <<>>)

\* /total/gi
TotalKeyword == LitCI(<<"t", "o", "t", "a", "l">>)

Candidate(v, c) == [value |-> v, confidence |-> c]

AsCandidates(ns, c) == [j \in 1..Len(ns) |-> Candidate(ns[j], c)]

\* step 1: the numbers of every line that contains "total"
RECURSIVE TotalLineAmounts(_, _)
TotalLineAmounts(lines, i) ==
  IF i > Len(lines) THEN <<>>
  ELSE LET line == Trim(lines[i]) IN
       (IF Test(TotalKeyword, line)
        THEN AsCandidates(extractNumbersFromLine(line), ConfTotalLine)
        ELSE <<>>) \o TotalLineAmounts(lines, i + 1)

\* Array.prototype.slice(-n)
LastN(q, n) == SubSeq(q, IF Len(q) > n THEN Len(q) - n + 1 ELSE 1, Len(q))

\* Array.prototype.slice(0, n)
FirstN(q, n) == SubSeq(q, 1, IF Len(q) > n THEN n ELSE Len(q))

\* step 2: the numbers >= 1000 of the last lines
RECURSIVE TailAmounts(_, _)
TailAmounts(lastLines, i) ==
  IF i > Len(lastLines) THEN <<>>
  ELSE AsCandidates(
         SelectSeq(extractNumbersFromLine(Trim(lastLines[i])),
                   LAMBDA a : a.ip >= BigNumber),
         ConfTailLines) \o TailAmounts(lastLines, i + 1)

\* step 3: the numbers in [1000, 999999999] of every line
RECURSIVE AnyLineAmounts(_, _)
AnyLineAmounts(lines, i) ==
  IF i > Len(lines) THEN <<>>
  ELSE AsCandidates(
         SelectSeq(extractNumbersFromLine(Trim(lines[i])),
                   LAMBDA a : a.ip >= BigNumber /\ NumLeq(a, Whole(MaxAmount))),
         ConfAnyLine) \o AnyLineAmounts(lines, i + 1)

\* if (amounts.length === 0): the next step runs only when the steps
\* before it found nothing
OrIfNone(found, next) == IF found # <<>> THEN found ELSE next

\* the candidates of the first step that yields any
AmountCandidates(lines) ==
  OrIfNone(TotalLineAmounts(lines, 1),
           OrIfNone(TailAmounts(LastN(lines, TailLines), 1),
                    AnyLineAmounts(lines, 1)))

Abs(x) == IF x < 0 THEN 0 - x ELSE x

\* a comparator without the tie window: confidence first, then value
AmountCompareByConfidence(a, b) ==
  IF a.confidence # b.confidence
  THEN b.confidence - a.confidence
  ELSE IF NumLess(b.value, a.value) THEN 0 - 1
       ELSE IF NumLess(a.value, b.value) THEN 1
       ELSE 0

\* the comparator of amounts.sort: negative when a sorts before b
AmountCompare(a, b) ==
  IF Abs(a.confidence - b.confidence) > TieWindow
  THEN b.confidence - a.confidence
  ELSE IF NumLess(b.value, a.value) THEN 0 - 1
       ELSE IF NumLess(a.value, b.value) THEN 1
       ELSE 0

\* Array.prototype.sort is stable: x goes before the first element it
\* sorts strictly before
RECURSIVE InsertAmount(_, _)
InsertAmount(sorted, x) ==
  IF sorted = <<>> THEN <<x>>
  ELSE IF AmountCompare(x, Head(sorted)) < 0 THEN <<x>> \o sorted
  ELSE <<Head(sorted)>> \o InsertAmount(Tail(sorted), x)

RECURSIVE SortAmounts(_, _)
SortAmounts(cands, k) ==
  IF k = 0 THEN <<>>
  ELSE InsertAmount(SortAmounts(cands, k - 1), cands[k])

\* the selection at the end of extractAmount: null, or the first candidate
\* after sorting
SelectAmount(cands) ==
  IF cands = <<>> THEN <<>> ELSE << SortAmounts(cands, Len(cands))[1] >>

extractAmount(text) == SelectAmount(AmountCandidates(Split(text, "\n")))

\* ------------------------------------------------------------------------
\* Calendar (the Date built-in)
\* ------------------------------------------------------------------------

HoursPerDay == 24

\* days from 1970-01-01 to the first day of month m (1..12) of year y, plus
\* d - 1: the proleptic Gregorian calendar
DaysFromCivil(y, m, d) ==
  LET yy == IF m <= 2 THEN y - 1 ELSE y
      era == yy \div 400
      yoe == yy - era * 400
      mp == IF m > 2 THEN m - 3 ELSE m + 9
      doy == (153 * mp + 2) \div 5 + d - 1
      doe == yoe * 365 + yoe \div 4 - yoe \div 100 + doy
  IN era * 146097 + doe - 719468

\* the calendar date of a day number
CivilFromDays(z) ==
  LET zz == z + 719468
      era == zz \div 146097
      doe == zz - era * 146097
      yoe == (doe - doe \div 1460 + doe \div 36524 - doe \div 146096) \div 365
      doy == doe - (365 * yoe + yoe \div 4 - yoe \div 100)
      mp == (5 * doy + 2) \div 153
      d == doy - (153 * mp + 2) \div 5 + 1
      m == IF mp < 10 THEN mp + 3 ELSE mp - 9
  IN [y |-> IF m <= 2 THEN yoe + era * 400 + 1 ELSE yoe + era * 400,
      m |-> m, d |-> d]

\* new Date(year, monthIndex, day): local midnight, in a zone tz hours east
\* of UTC.  A year in 0..99 means 1900 + year; a month index or a day out of
\* range rolls over into the neighbouring months.
LocalDate(year, monthIndex, day, tz) ==
  LET y0 == IF year >= 0 /\ year <= 99 THEN 1900 + year ELSE year
      ym == y0 + monthIndex \div 12
      mn == monthIndex % 12
  IN (DaysFromCivil(ym, mn + 1, 1) + day - 1) * HoursPerDay - tz

\* the decimal digits of n in w places, with leading zeros
Padded(n, w) == [k \in 1..w |-> DigitChars[((n \div (10 ^ (w - k))) % 10) + 1]]

\* Date.prototype.toISOString().split('T')[0]: the UTC calendar date as
\* YYYY-MM-DD
IsoDate(instant) ==
  LET c == CivilFromDays(instant \div HoursPerDay)
  IN Padded(c.y, 4) \o <<"-">> \o Padded(c.m, 2) \o <<"-">> \o Padded(c.d, 2)

\* new Date("YYYY-MM-DD"): UTC midnight of that date
DateOfIso(v) ==
  DaysFromCivil(IntOf(SubSeq(v, 1, 4), 0), IntOf(SubSeq(v, 6, 7), 0),
                IntOf(SubSeq(v, 9, 10), 0)) * HoursPerDay

\* ------------------------------------------------------------------------
\* Date extractor
\* ------------------------------------------------------------------------

FutureDays == 365

HeadLines == 15

ConfFechaLine == 95

ConfHeadLines == 75

ConfAnyDate == 50

\* years below this are 20yy, the others 19yy
PivotYear == 50

D12 == Cls(Digits, 1, 2, TRUE)

Slash == One({"/"})

Dash == One({"-"})

\* the formats parseDate tries; the capture groups are items 1, 3 and 5
\* /(\d{1,2})\/(\d{1,2})\/(\d{2,4})/
FormatSlash == <<D12, Slash, D12, Slash, Cls(Digits, 2, 4, TRUE)>>

\* /(\d{1,2})-(\d{1,2})-(\d{2,4})/
FormatDash == <<D12, Dash, D12, Dash, Cls(Digits, 2, 4, TRUE)>>

\* /(\d{2,4})-(\d{1,2})-(\d{1,2})/
FormatIso == <<Cls(Digits, 2, 4, TRUE), Dash, D12, Dash, D12>>

formats == <<FormatSlash, FormatDash, FormatIso>>

ParseInt(ds) == IntOf(ds, 0)

\* the year, month and day parseDate reads from one format's match
DateFields(dateStr, m) ==
  LET g1 == GroupText(dateStr, m, 1)
      g2 == GroupText(dateStr, m, 3)
      g3 == GroupText(dateStr, m, 5)
  IN IF Includes(MatchText(dateStr, m), <<"-">>) /\ Len(g1) = 4
     THEN [year |-> ParseInt(g1), month |-> ParseInt(g2), day |-> ParseInt(g3)]
     ELSE LET year == ParseInt(g3) IN
          [year |-> IF year < 100
                    THEN year + (IF year < PivotYear THEN 2000 ELSE 1900)
                    ELSE year,
           month |-> ParseInt(g2), day |-> ParseInt(g1)]

\* parseDate: the ISO date of the first format that matches and gives a
\* date not after now; <<>> is null
RECURSIVE ParseDateFrom(_, _, _, _)
RECURSIVE ParseMatch(_, _, _, _, _)
RECURSIVE ParseChecked(_, _, _, _, _)
ParseDateFrom(dateStr, k, clock, tz) ==
  IF k > Len(formats) THEN <<>>
  ELSE ParseMatch(dateStr, k, clock, tz, ExecFrom(formats[k], dateStr, 1))

\* new Date(year, month - 1, day) of the fields f
DateOfFields(f, tz) == LocalDate(f.year, f.month - 1, f.day, tz)

\* if (match): the date of the match m of format k, or the next format
ParseMatch(dateStr, k, clock, tz, m) ==
  IF m = <<>> THEN ParseDateFrom(dateStr, k + 1, clock, tz)
  ELSE ParseChecked(dateStr, k, clock, tz,
                    DateOfFields(DateFields(dateStr, m[1]), tz))

\* date <= new Date(): the ISO date is returned, or the next format is tried
ParseChecked(dateStr, k, clock, tz, date) ==
  IF date <= clock THEN << IsoDate(date) >>
  ELSE ParseDateFrom(dateStr, k + 1, clock, tz)

parseDate(dateStr, clock, tz) == ParseDateFrom(dateStr, 1, clock, tz)

\* /(\d{1,2})\/(\d{1,2})\/(\d{4})/g and the three others
datePatterns ==
  <<<<D12, Slash, D12, Slash, Cls(Digits, 4, 4, TRUE)>>,
    <<D12, Dash, D12, Dash, Cls(Digits, 4, 4, TRUE)>>,
    <<D12, Slash, D12, Slash, Cls(Digits, 2, 2, TRUE)>>,
    <<D12, Dash, D12, Dash, Cls(Digits, 2, 2, TRUE)>>>>

\* daysDiff <= 365, daysDiff the real quotient of a difference of instants
NotFarFuture(v, clock) ==
  DateOfIso(v) - clock <= FutureDays * HoursPerDay

\* dates with parsedDate pushed, when it is a date, not far in the future
\* and new
PushDate(dates, parsedDate, clock) ==
  IF /\ parsedDate # <<>>
     /\ NotFarFuture(parsedDate[1], clock)
     /\ ~\E j \in 1..Len(dates) : dates[j] = parsedDate[1]
  THEN Append(dates, parsedDate[1])
  ELSE dates

RECURSIVE PushDates(_, _, _, _, _)
PushDates(strs, k, dates, clock, tz) ==
  IF k > Len(strs) THEN dates
  ELSE PushDates(strs, k + 1,
                 PushDate(dates, parseDate(strs[k], clock, tz), clock),
                 clock, tz)

extractDatesFromLine(line, clock, tz) ==
  PushDates(MatchTextsOf(datePatterns, 1, line), 1, <<>>, clock, tz)

\* /fecha/gi
FechaKeyword == LitCI(<<"f", "e", "c", "h", "a">>)

\* step 1: the dates of every line that contains "fecha"
RECURSIVE FechaLineDates(_, _, _, _)
FechaLineDates(lines, i, clock, tz) ==
  IF i > Len(lines) THEN <<>>
  ELSE LET line == Trim(lines[i]) IN
       (IF Test(FechaKeyword, line)
        THEN AsCandidates(extractDatesFromLine(line, clock, tz), ConfFechaLine)
        ELSE <<>>) \o FechaLineDates(lines, i + 1, clock, tz)

\* steps 2 and 3: the dates of the given lines
RECURSIVE LineDates(_, _, _, _, _)
LineDates(lines, i, c, clock, tz) ==
  IF i > Len(lines) THEN <<>>
  ELSE AsCandidates(extractDatesFromLine(Trim(lines[i]), clock, tz), c)
         \o LineDates(lines, i + 1, c, clock, tz)

DateCandidates(lines, clock, tz) ==
  OrIfNone(FechaLineDates(lines, 1, clock, tz),
           OrIfNone(LineDates(FirstN(lines, HeadLines), 1, ConfHeadLines, clock, tz),
                    LineDates(lines, 1, ConfAnyDate, clock, tz)))

\* a comparator that prefers the later date among similar confidences
DateCompareLatest(a, b, clock) ==
  IF Abs(a.confidence - b.confidence) > TieWindow
  THEN b.confidence - a.confidence
  ELSE DateOfIso(b.value) - DateOfIso(a.value)

\* the comparator of dates.sort: negative when a sorts before b
DateCompare(a, b, clock) ==
  IF Abs(a.confidence - b.confidence) > TieWindow
  THEN b.confidence - a.confidence
  ELSE Abs(DateOfIso(a.value) - clock) - Abs(DateOfIso(b.value) - clock)

RECURSIVE InsertDate(_, _, _)
InsertDate(sorted, x, clock) ==
  IF sorted = <<>> THEN <<x>>
  ELSE IF DateCompare(x, Head(sorted), clock) < 0 THEN <<x>> \o sorted
  ELSE <<Head(sorted)>> \o InsertDate(Tail(sorted), x, clock)

RECURSIVE SortDates(_, _, _)
SortDates(cands, k, clock) ==
  IF k = 0 THEN <<>>
  ELSE InsertDate(SortDates(cands, k - 1, clock), cands[k], clock)

SelectDate(cands, clock) ==
  IF cands = <<>> THEN <<>> ELSE << SortDates(cands, Len(cands), clock)[1] >>

extractDate(text, clock, tz) ==
  SelectDate(DateCandidates(Split(text, "\n"), clock, tz), clock)

\* ------------------------------------------------------------------------
\* Label patterns: vendor and auxiliary fields
\* ------------------------------------------------------------------------

\* [:\s]*
ColonSpaces == Cls({":"} \cup WhiteSpace, 0, Unbounded, TRUE)

\* \s+
Spaces == Cls(WhiteSpace, 1, Unbounded, TRUE)

\* a pattern with one capture group: its items, and the first and last item
\* of the group
Pattern(items, from, to) == [items |-> items, from |-> from, to |-> to]

\* /label[:\s]*(.+?)(?:\n|RFC|$)/gi
VendorPattern(label) ==
  Pattern(label \o <<ColonSpaces,
                     NotCls(LineTerminators, 1, Unbounded, FALSE),
                     Alt(<< <<One({"\n"})>>, LitCI(<<"R", "F", "C">>), <<EndOfInput>> >>)>>,
          Len(label) + 2, Len(label) + 2)

VendorPatterns ==
  <<VendorPattern(LitCI(<<"r", "a", "z", "ó", "n">>) \o <<Spaces>> \o LitCI(<<"s", "o", "c", "i", "a", "l">>)),
    VendorPattern(LitCI(<<"e", "m", "p", "r", "e", "s", "a">>)),
    VendorPattern(LitCI(<<"p", "r", "o", "v", "e", "e", "d", "o", "r">>)),
    VendorPattern(LitCI(<<"e", "x", "p", "e", "d", "i", "d", "o">>) \o <<Spaces>> \o LitCI(<<"p", "o", "r">>))>>

\* [A-Z&Ñ] and [A-Z0-9] under the i flag, and without it
RfcLetterCI == AsciiUpper \cup AsciiLower \cup {"&", "Ñ", "ñ"}

RfcLetter == AsciiUpper \cup {"&", "Ñ"}

AlnumCI == AsciiUpper \cup AsciiLower \cup Digits

Alnum == AsciiUpper \cup Digits

\* /RFC[:\s]*([A-Z&Ñ]{3,4}\d{6}[A-Z0-9]{3})/gi and
\* /([A-Z&Ñ]{3,4}\d{6}[A-Z0-9]{3})/g
RfcPatterns ==
  <<Pattern(LitCI(<<"R", "F", "C">>) \o <<ColonSpaces, Cls(RfcLetterCI, 3, 4, TRUE),
                            Cls(Digits, 6, 6, TRUE), Cls(AlnumCI, 3, 3, TRUE)>>,
            5, 7),
    Pattern(<<Cls(RfcLetter, 3, 4, TRUE), Cls(Digits, 6, 6, TRUE),
              Cls(Alnum, 3, 3, TRUE)>>, 1, 3)>>

\* /label[:\s]*([A-Z0-9\-]+)/gi
FolioPattern(label) ==
  Pattern(label \o <<ColonSpaces, Cls(AlnumCI \cup {"-"}, 1, Unbounded, TRUE)>>,
          Len(label) + 2, Len(label) + 2)

FolioPatterns ==
  <<FolioPattern(LitCI(<<"f", "o", "l", "i", "o">>)),
    FolioPattern(LitCI(<<"f", "a", "c", "t", "u", "r", "a">>)),
    FolioPattern(LitCI(<<"n", "ú", "m", "e", "r", "o">>))>>

\* /label[:\s]*\$?\s*([0-9,]+\.?[0-9]*)/gi
MoneyPattern(label) ==
  Pattern(label \o <<ColonSpaces, Cls({"$"}, 0, 1, TRUE),
                     Cls(WhiteSpace, 0, Unbounded, TRUE),
                     Cls(Digits \cup {","}, 1, Unbounded, TRUE),
                     Cls({"."}, 0, 1, TRUE),
                     Cls(Digits, 0, Unbounded, TRUE)>>,
          Len(label) + 4, Len(label) + 6)

SubtotalPatterns ==
  <<MoneyPattern(LitCI(<<"s", "u", "b", "t", "o", "t", "a", "l">>)),
    MoneyPattern(LitCI(<<"b", "a", "s", "e">>))>>

IvaPatterns ==
  <<MoneyPattern(LitCI(<<"i", "v", "a">>)),
    MoneyPattern(LitCI(<<"i", "m", "p", "u", "e", "s", "t", "o">>)),
    MoneyPattern(Lit(<<"1", "6", "%">>))>>

\* the lastIndex of every g-flagged expression the service object keeps
NoCursors ==
  [vendor |-> [k \in 1..Len(VendorPatterns) |-> 0],
   rfc |-> [k \in 1..Len(RfcPatterns) |-> 0],
   folio |-> [k \in 1..Len(FolioPatterns) |-> 0],
   subtotal |-> [k \in 1..Len(SubtotalPatterns) |-> 0],
   iva |-> [k \in 1..Len(IvaPatterns) |-> 0]]

\* the array and the lastIndex of an exec whose match is m
ExecArray(pattern, s, m) ==
  IF m = <<>> THEN [array |-> <<>>, lastIndex |-> 0]
  ELSE LET from == m[1].start + SumSeq(SubSeq(m[1].lens, 1, pattern.from - 1))
           len == SumSeq(SubSeq(m[1].lens, pattern.from, pattern.to))
       IN [array |-> <<MatchText(s, m[1]), SubSeq(s, from, from + len - 1)>>,
           lastIndex |-> MatchEnd(m[1]) - 1]

\* the array a RegExp exec would give from lastIndex: the match and its
\* capture group, the expression left pointing behind the match
StringMatchExec(pattern, s, lastIndex) ==
  ExecArray(pattern, s, ExecFrom(pattern.items, s, lastIndex + 1))

\* String.prototype.match with a g-flagged expression: lastIndex is set to 0,
\* the array holds the text of every match (no capture groups; <<>> for
\* null), and lastIndex is 0 again afterwards
StringMatch(pattern, s, lastIndex) ==
  [array |-> TextsOf(s, AllMatchesFrom(pattern.items, s, 1)), lastIndex |-> 0]

\* match && match[1]: the second element of the array, when it is there and
\* not empty
SecondElement(array) ==
  IF Len(array) >= 2 /\ array[2] # <<>> THEN <<array[2]>> ELSE <<>>

MinVendorLength == 2

MaxVendorLength == 100

ConfVendor == 75

\* extractVendor: the first pattern whose match[1], trimmed and with white
\* space collapsed, is longer than 2 and shorter than 100
RECURSIVE VendorFrom(_, _, _)
RECURSIVE VendorMatched(_, _, _, _)
RECURSIVE VendorChecked(_, _, _, _)
VendorFrom(text, k, cursors) ==
  IF k > Len(VendorPatterns) THEN [value |-> <<>>, cursors |-> cursors]
  ELSE VendorMatched(text, k, cursors,
                     StringMatch(VendorPatterns[k], text, cursors[k]))

\* match[1].trim().replace(/\s+/g, ' '), when match[1] is there
VendorName(g) ==
  IF g = <<>> THEN <<>> ELSE << CollapseWhiteSpace(Trim(g[1])) >>

\* pattern k has been matched, with the result r
VendorMatched(text, k, cursors, r) ==
  VendorChecked(text, k, [cursors EXCEPT ![k] = r.lastIndex],
                VendorName(SecondElement(r.array)))

\* the length check on the vendor of pattern k; the next pattern when it
\* fails or when there is no vendor
VendorChecked(text, k, after, vendor) ==
  IF /\ vendor # <<>>
     /\ Len(vendor[1]) > MinVendorLength
     /\ Len(vendor[1]) < MaxVendorLength
  THEN [value |-> <<Candidate(vendor[1], ConfVendor)>>, cursors |-> after]
  ELSE VendorFrom(text, k + 1, after)

extractVendor(text, cursors) == VendorFrom(text, 1, cursors)

\* extractWithPatterns: match[1] of the first pattern that has one, trimmed
RECURSIVE WithPatternsFrom(_, _, _, _)
RECURSIVE PatternMatched(_, _, _, _, _)
RECURSIVE PatternChecked(_, _, _, _, _)
WithPatternsFrom(text, patterns, k, cursors) ==
  IF k > Len(patterns) THEN [value |-> <<>>, cursors |-> cursors]
  ELSE PatternMatched(text, patterns, k, cursors,
                      StringMatch(patterns[k], text, cursors[k]))

\* pattern k has been matched, with the result r
PatternMatched(text, patterns, k, cursors, r) ==
  PatternChecked(text, patterns, k, [cursors EXCEPT ![k] = r.lastIndex],
                 SecondElement(r.array))

\* match[1].trim() when match[1] is there; otherwise the next pattern
PatternChecked(text, patterns, k, after, g) ==
  IF g # <<>> THEN [value |-> <<Trim(g[1])>>, cursors |-> after]
  ELSE WithPatternsFrom(text, patterns, k + 1, after)

extractWithPatterns(text, patterns, cursors) ==
  WithPatternsFrom(text, patterns, 1, cursors)

\* extractNumericValue: that text without commas through parseFloat;
\* absent when there is none, when it is empty or when the number is NaN
NumericValue(r) ==
  [value |-> IF r.value # <<>> /\ r.value[1] # <<>>
             THEN ParseFloat(RemoveCommas(r.value[1]))
             ELSE <<>>,
   cursors |-> r.cursors]

extractNumericValue(text, patterns, cursors) ==
  NumericValue(extractWithPatterns(text, patterns, cursors))

\* ------------------------------------------------------------------------
\* Category classifier
\* ------------------------------------------------------------------------

vendorCategoryMapping ==
  <<
    [categoria |-> "Alimentación", tipo |-> "egreso",
     keywords |-> <<<<"o", "x", "x", "o">>,
                    <<"t", "i", "e", "n", "d", "a">>>>],
    [categoria |-> "Compras", tipo |-> "egreso",
     keywords |-> <<<<"w", "a", "l", "m", "a", "r", "t">>,
                    <<"s", "u", "p", "e", "r", "c", "e", "n", "t", "e", "r">>>>],
    [categoria |-> "Alimentación", tipo |-> "egreso",
     keywords |-> <<<<"s", "o", "r", "i", "a", "n", "a">>,
                    <<"s", "u", "p", "e", "r">>>>],
    [categoria |-> "Alimentación", tipo |-> "egreso",
     keywords |-> <<<<"c", "h", "e", "d", "r", "a", "u", "i">>>>],
    [categoria |-> "Transporte", tipo |-> "egreso",
     keywords |-> <<<<"p", "e", "m", "e", "x">>,
                    <<"g", "a", "s", "o", "l", "i", "n", "a">>,
                    <<"c", "o", "m", "b", "u", "s", "t", "i", "b", "l", "e">>>>],
    [categoria |-> "Servicios", tipo |-> "egreso",
     keywords |-> <<<<"c", "f", "e">>,
                    <<"c", "o", "m", "i", "s", "i", "ó", "n", " ", "f", "e", "d", "e", "r", "a", "l">>,
                    <<"e", "l", "e", "c", "t", "r", "i", "c", "i", "d", "a", "d">>>>],
    [categoria |-> "Servicios", tipo |-> "egreso",
     keywords |-> <<<<"t", "e", "l", "m", "e", "x">>,
                    <<"t", "e", "l", "é", "f", "o", "n", "o">>,
                    <<"i", "n", "t", "e", "r", "n", "e", "t">>>>],
    [categoria |-> "Servicios", tipo |-> "egreso",
     keywords |-> <<<<"t", "e", "l", "c", "e", "l">>,
                    <<"c", "e", "l", "u", "l", "a", "r">>,
                    <<"m", "ó", "v", "i", "l">>>>],
    [categoria |-> "Transporte", tipo |-> "egreso",
     keywords |-> <<<<"u", "b", "e", "r">>,
                    <<"v", "i", "a", "j", "e">>>>],
    [categoria |-> "Entretenimiento", tipo |-> "egreso",
     keywords |-> <<<<"n", "e", "t", "f", "l", "i", "x">>,
                    <<"s", "t", "r", "e", "a", "m", "i", "n", "g">>>>],
    [categoria |-> "Entretenimiento", tipo |-> "egreso",
     keywords |-> <<<<"s", "p", "o", "t", "i", "f", "y">>,
                    <<"m", "ú", "s", "i", "c", "a">>>>],
    [categoria |-> "Salud", tipo |-> "egreso",
     keywords |-> <<<<"f", "a", "r", "m", "a", "c", "i", "a">>,
                    <<"g", "u", "a", "d", "a", "l", "a", "j", "a", "r", "a">>,
                    <<"b", "e", "n", "a", "v", "i", "d", "e", "s">>,
                    <<"d", "e", "l", " ", "a", "h", "o", "r", "r", "o">>>>],
    [categoria |-> "Salud", tipo |-> "egreso",
     keywords |-> <<<<"f", "a", "r", "m", "a", "c", "i", "t", "y">>,
                    <<"f", "a", "r", "m", "a">>>>],
    [categoria |-> "Alimentación", tipo |-> "egreso",
     keywords |-> <<<<"d", "i", "a", " ", "a", "r", "g", "e", "n", "t", "i", "n", "a">>,
                    <<"d", "i", "a">>,
                    <<"s", "u", "p", "e", "r", "m", "e", "r", "c", "a", "d", "o", " ", "d", "i", "a">>>>],
    [categoria |-> "Alimentación", tipo |-> "egreso",
     keywords |-> <<<<"c", "a", "r", "r", "e", "f", "o", "u", "r">>,
                    <<"c", "a", "r", "r", "e", "f", "o", "u", "r", " ", "e", "x", "p", "r", "e", "s", "s">>>>],
    [categoria |-> "Alimentación", tipo |-> "egreso",
     keywords |-> <<<<"d", "i", "s", "c", "o">>,
                    <<"s", "u", "p", "e", "r", "m", "e", "r", "c", "a", "d", "o", " ", "d", "i", "s", "c", "o">>>>],
    [categoria |-> "Alimentación", tipo |-> "egreso",
     keywords |-> <<<<"j", "u", "m", "b", "o">>,
                    <<"s", "u", "p", "e", "r", "m", "e", "r", "c", "a", "d", "o", " ", "j", "u", "m", "b", "o">>>>],
    [categoria |-> "Alimentación", tipo |-> "egreso",
     keywords |-> <<<<"r", "e", "s", "t", "a", "u", "r", "a", "n", "t", "e">>,
                    <<"c", "o", "m", "i", "d", "a">>,
                    <<"a", "l", "i", "m", "e", "n", "t", "o", "s">>>>],
    [categoria |-> "Transporte", tipo |-> "egreso",
     keywords |-> <<<<"g", "a", "s", "o", "l", "i", "n", "e", "r", "a">>,
                    <<"g", "a", "s">>,
                    <<"c", "o", "m", "b", "u", "s", "t", "i", "b", "l", "e">>>>]
  >>

\* detectCategory: the first entry of the table one of whose keywords the
\* lowercased vendor includes; <<>> is null
RECURSIVE CategoryFrom(_, _)
RECURSIVE CategoryOfEntry(_, _, _)
CategoryFrom(vendorLower, k) ==
  IF k > Len(vendorCategoryMapping) THEN <<>>
  ELSE CategoryOfEntry(vendorLower, k, vendorCategoryMapping[k])

\* mapping.keywords.some(keyword => vendorLower.includes(keyword))
CategoryOfEntry(vendorLower, k, mapping) ==
  IF \E j \in 1..Len(mapping.keywords) : Includes(vendorLower, mapping.keywords[j])
  THEN << [categoria |-> mapping.categoria, tipo |-> mapping.tipo] >>
  ELSE CategoryFrom(vendorLower, k + 1)

\* a classifier that looks for the keywords in the vendor as it is written
detectCategoryExact(vendor) == CategoryFrom(vendor, 1)

detectCategory(vendor) == CategoryFrom(LowerCase(vendor), 1)

\* ------------------------------------------------------------------------
\* Pipeline
\* ------------------------------------------------------------------------

\* Math.floor of sum / n
RoundedMeanFloor(sum, n) == sum \div n

\* Math.round of sum / n: the nearest integer, a half rounding up
RoundedMean(sum, n) == (2 * sum + n) \div (2 * n)

\* the sum of the confidences that are set, not divided
OverallSum(values) == SumSeq(values)

\* the overall confidence from the confidences that are set
OverallConfidence(values) ==
  IF Len(values) > 0 THEN RoundedMean(SumSeq(values), Len(values)) ELSE 0

\* the type is left as the classifier set it
FinalTipoKept(tipo) == tipo

\* extractedData.tipo = 'egreso', whatever it held
FinalTipo(tipo) == <<"egreso">>

ConfidenceOf(r) == IF r = <<>> THEN <<>> ELSE <<r[1].confidence>>

ValueOf(r) == IF r = <<>> THEN <<>> ELSE <<r[1].value>>

\* a string that is set and not empty
Truthy(v) == v # <<>> /\ v[1] # <<>>

\* the category of the vendor that was found, if one was
CategoryOfVendor(vendorValue) ==
  IF vendorValue # <<>> THEN detectCategory(vendorValue[1].value) ELSE <<>>

\* the description built without looking whether a vendor was found
DescripcionAlways(vendor, folio) ==
  << <<"F", "a", "c", "t", "u", "r", "a", " ", "-", " ">>
     \o (IF vendor # <<>> THEN vendor[1] ELSE <<>>) >>

\* `Factura - ${vendor}`, with ` (${folio})` when there is a folio
Descripcion(vendor, folio) ==
  IF Truthy(vendor)
  THEN << <<"F", "a", "c", "t", "u", "r", "a", " ", "-", " ">> \o vendor[1]
          \o (IF Truthy(folio)
              THEN <<" ", "(">> \o folio[1] \o <<")">>
              ELSE <<>>) >>
  ELSE <<>>

\* extractedData.confidence, overall included
Confidence(monto, fecha, vendor) ==
  [monto |-> monto, fecha |-> fecha, vendor |-> vendor,
   overall |-> << OverallConfidence(monto \o fecha \o vendor) >>]

\* the record put together from what the extractors returned
Assembled(amountResult, dateResult, vendorResult, categoryData, rfc, folio, subtotal, iva) ==
  [monto |-> ValueOf(amountResult),
   fecha |-> ValueOf(dateResult),
   vendor |-> ValueOf(vendorResult),
   categoria |-> IF categoryData # <<>> THEN <<categoryData[1].categoria>> ELSE <<>>,
   tipo |-> FinalTipo(IF categoryData # <<>> THEN <<categoryData[1].tipo>> ELSE <<>>),
   rfc |-> rfc,
   folio |-> folio,
   subtotal |-> subtotal,
   iva |-> iva,
   descripcion |-> Descripcion(ValueOf(vendorResult), folio),
   confidence |-> Confidence(ConfidenceOf(amountResult), ConfidenceOf(dateResult),
                             ConfidenceOf(vendorResult))]

\* the record, and the lastIndex values the label patterns are left with
Collected(amountResult, dateResult, vendorResult, rfc, folio, subtotal, iva) ==
  [data |-> Assembled(amountResult, dateResult, vendorResult.value,
                      CategoryOfVendor(vendorResult.value),
                      rfc.value, folio.value, subtotal.value, iva.value),
   cursors |->
     [vendor |-> vendorResult.cursors, rfc |-> rfc.cursors,
      folio |-> folio.cursors, subtotal |-> subtotal.cursors,
      iva |-> iva.cursors]]

\* the extractors applied to the cleaned text
ExtractFrom(cleanText, clock, tz, cursors) ==
  Collected(extractAmount(cleanText),
            extractDate(cleanText, clock, tz),
            extractVendor(cleanText, cursors.vendor),
            extractWithPatterns(cleanText, RfcPatterns, cursors.rfc),
            extractWithPatterns(cleanText, FolioPatterns, cursors.folio),
            extractNumericValue(cleanText, SubtotalPatterns, cursors.subtotal),
            extractNumericValue(cleanText, IvaPatterns, cursors.iva))

\* extractMovementData: the record returned for ocrText read at instant
\* clock in the zone tz, and the lastIndex values it leaves behind
extractMovementData(ocrText, clock, tz, cursors) ==
  ExtractFrom(Trim(CollapseWhiteSpace(ocrText)), clock, tz, cursors)

\* ------------------------------------------------------------------------
\* The service and its callers
\* ------------------------------------------------------------------------

\* a text has at most this many fragments
MaxLen == 3

\* the clock is advanced at most this many times
MaxTicks == 1

\* a list of amount candidates has at most this many elements
MaxCands == 3

\* the clock advances by a day
TickHours == HoursPerDay

\* the first clock reading: 2024-03-14T12:00Z
NowStart == DaysFromCivil(2024, 3, 14) * HoursPerDay + 12

\* the zones the process may run in, in hours east of UTC
TimeZones == {0, 1}

LineTotal == <<"T", "O", "T", "A", "L", ":", " ", "$", "1", ",", "2", "3", "4", ".", "5", "6">>

LineDecimalComma == <<"4", "4", "0", "1", "7", ",", "0", "0">>

LineFolio == <<"F", "o", "l", "i", "o", " ", "9", "8", "7", "6", "5">>

LinePhone == <<"T", "e", "l", " ", "5", "5", "1", "2", "3", "4", "5", "6", "7", "8">>

\* nine empty lines
LineGap == <<"\n", "\n", "\n", "\n", "\n", "\n", "\n", "\n">>

LineEmpresa == <<"E", "m", "p", "r", "e", "s", "a", ":", " ", "O", "X", "X", "O">>

LineEmpresaRfc == <<"E", "m", "p", "r", "e", "s", "a", ":", " ", "O", "X", "X", "O", " ", "R", "F", "C">>

LineFecha == <<"F", "e", "c", "h", "a", ":", " ", "1", "5", "/", "0", "3", "/", "2", "0", "2", "4">>

LineFechaEmision == <<"F", "e", "c", "h", "a", ":", " ", "0", "1", "/", "0", "3", "/", "2", "0", "2", "4">>

LinePago == <<"P", "a", "g", "o", " ", "1", "0", "/", "0", "3", "/", "2", "0", "2", "4">>

LineSubtotal == <<"S", "u", "b", "t", "o", "t", "a", "l", ":", " ", "1", ",", "0", "0", "0", ".", "0", "0">>

LineIso == <<"2", "0", "2", "4", "-", "0", "3", "-", "1", "0">>

LineTotal500 == <<"T", "O", "T", "A", "L", " ", "5", "0", "0">>

LineTotal5000 == <<"T", "O", "T", "A", "L", " ", "5", "0", "0", "0">>

LineTotalEuropean == <<"T", "O", "T", "A", "L", " ", "1", ".", "2", "3", "4", ",", "5", "6">>

LineYear2004 == <<"1", "5", "/", "0", "3", "/", "2", "0", "0", "4">>

LineFebruary31 == <<"3", "1", "/", "0", "2", "/", "2", "0", "2", "4">>

\* the lines a receipt is made of: tickets with a total, a ticket without
\* one, the heads of invoices, invoices with a date of issue and a date of
\* payment, a date far down the page, a subtotal beside an ISO date, and
\* tickets that repeat one line
Vocabularies ==
  { {LineTotal, LineFolio},
    {LineTotal, LinePhone},
    {LineDecimalComma, LineFolio, LineGap},
    {LineEmpresa, LineFecha},
    {LineEmpresaRfc, LineFecha},
    {LineFechaEmision, LinePago},
    {LinePago, LineGap},
    {LineSubtotal, LineIso},
    {LineTotal500},
    {LineTotal5000},
    {LineTotalEuropean},
    {LineYear2004},
    {LineFebruary31} }

\* Array.prototype.join("\n")
RECURSIVE JoinLines(_)
JoinLines(lines) ==
  IF lines = <<>> THEN <<>>
  ELSE IF Len(lines) = 1 THEN lines[1]
  ELSE lines[1] \o <<"\n">> \o JoinLines(Tail(lines))

\* the recognised texts: up to MaxLen lines of one vocabulary
Texts ==
  UNION { UNION { {JoinLines(q) : q \in [1..n -> V]} : n \in 0..MaxLen }
          : V \in Vocabularies }

\* the candidates a selection is made from: the confidences of the three
\* tiers and 90, over three values
CandidateSet ==
  { Candidate(Whole(v), c) : v \in {500, 800, 1234},
                             c \in {ConfTotalLine, 90, ConfTailLines, ConfAnyLine} }

\* the date candidates a selection is made from: the confidences of the
\* three tiers and 90, over three dates around the clock
DateCandidateSet ==
  { Candidate(IsoDate(DaysFromCivil(2024, 3, d) * HoursPerDay), c) :
      d \in {10, 13, 20}, c \in {ConfFechaLine, 90, ConfHeadLines, ConfAnyDate} }

DateCandidateLists == UNION { [1..n -> DateCandidateSet] : n \in 0..MaxCands }

CandidateLists == UNION { [1..n -> CandidateSet] : n \in 0..MaxCands }

\* the words vendor names are made of
VendorWords ==
  { <<"O", "X", "X", "O">>,
    <<"T", "I", "E", "N", "D", "A">>,
    <<"S", "u", "p", "e", "r", "c", "e", "n", "t", "e", "r">>,
    <<"S", "u", "p", "e", "r">>,
    <<"G", "a", "s">>,
    <<"F", "a", "r", "m", "a", "c", "i", "a">>,
    <<"D", "i", "s", "c", "o">>,
    <<"M", "Ú", "S", "I", "C", "A">>,
    <<"P", "a", "p", "e", "l", "e", "r", "í", "a">>,
    <<"M", "e", "d", "i", "a", "n", "a">> }

\* a vendor name has up to this many words
MaxWords == 2

RECURSIVE JoinWords(_)
JoinWords(ws) ==
  IF Len(ws) = 1 THEN ws[1] ELSE ws[1] \o <<" ">> \o JoinWords(Tail(ws))

VendorNames == UNION { {JoinWords(q) : q \in [1..n -> VendorWords]} : n \in 1..MaxWords }

\* what extractVendor hands over: nothing, or a name with its confidence
VendorResults == {<<>>} \cup { <<Candidate(v, ConfVendor)>> : v \in VendorNames }

\* the calls made on the service: two callers of processImage and one of
\* terminate
ProcessImageCalls == {"p1", "p2"}

Calls == ProcessImageCalls \cup {"terminate"}

VARIABLES
  now,        \* the clock, in hours since 1970-01-01T00:00Z
  tz,         \* the zone of the process, in hours east of UTC
  lastIndex,  \* the lastIndex of the g-flagged expressions of the service
  pc,         \* "idle", "called" (extractMovementData is running), "returned"
  text,       \* the argument of the call
  result,     \* <<>>, or the record the last call returned
  calledAt,   \* the clock reading of the call that returned result
  candidates, \* the amount candidates a selection is made from
  selected,   \* <<>>, or the candidate the selection returned
  request,       \* <<>>, or the request the last answer was given to
  vendorResult,  \* <<>>, or the {value, confidence} handed to the classifier
  movements,     \* the documents of the movements collection, oldest first
  worker,        \* OCRService.worker: 0 (null), or the number of a worker
  isInitialized, \* OCRService.isInitialized
  workers,       \* the state of every worker createWorker was asked for
  procs          \* where each call on the service is: its pc and its worker

\* the fields of the service that hold the recognition worker
workerVars == <<worker, isInitialized, workers, procs>>

vars == <<now, tz, lastIndex, pc, text, result, calledAt, candidates, selected, request, vendorResult, movements, workerVars>>

\* the service before its first call: no worker was asked for
NotInitialized ==
  /\ worker = 0
  /\ isInitialized = FALSE
  /\ workers = <<>>
  /\ procs = [c \in Calls |-> [pc |-> "idle", worker |-> 0]]

Init ==
  /\ now = NowStart
  /\ tz \in TimeZones
  /\ lastIndex = NoCursors
  /\ pc = "idle"
  /\ text = <<>>
  /\ result = <<>>
  /\ calledAt = NowStart
  /\ candidates = <<>>
  /\ selected = <<>>
  /\ request = <<>>
  /\ vendorResult = <<>>
  /\ movements = <<>>
  /\ NotInitialized

\* a caller passes a recognised text to extractMovementData
Call(t) ==
  /\ pc = "idle"
  /\ pc' = "called"
  /\ text' = t
  /\ UNCHANGED <<now, tz, lastIndex, result, calledAt, candidates, selected, request, vendorResult, movements, workerVars>>

\* the caller passes the same text again
CallAgain ==
  /\ pc = "returned"
  /\ pc' = "called"
  /\ UNCHANGED <<now, tz, lastIndex, text, result, calledAt, candidates, selected, request, vendorResult, movements, workerVars>>

\* the record of r is handed to the caller, the cursors stay with the service
Returns(r) ==
  /\ result' = <<r.data>>
  /\ lastIndex' = r.cursors

\* extractMovementData runs and returns its record
Return ==
  /\ pc = "called"
  /\ Returns(extractMovementData(text, now, tz, lastIndex))
  /\ calledAt' = now
  /\ pc' = "returned"
  /\ UNCHANGED <<now, tz, text, candidates, selected, request, vendorResult, movements, workerVars>>

\* the caller drops the record; the service object lives on
Forget ==
  /\ pc = "returned"
  /\ pc' = "idle"
  /\ text' = <<>>
  /\ result' = <<>>
  /\ UNCHANGED <<now, tz, lastIndex, calledAt, candidates, selected, request, vendorResult, movements, workerVars>>

\* time passes between calls
Tick ==
  /\ pc \in {"idle", "returned"}
  /\ now < NowStart + MaxTicks * TickHours
  /\ now' = now + TickHours
  /\ UNCHANGED <<tz, lastIndex, pc, text, result, calledAt, candidates, selected, request, vendorResult, movements, workerVars>>

Next ==
  \/ \E t \in Texts : Call(t)
  \/ CallAgain
  \/ Return
  \/ Forget
  \/ Tick

Spec == Init /\ [][Next]_vars

\* The selection at the end of extractAmount, on its own: the candidates
\* are drawn from CandidateLists and the selection is applied to them.
SelInit ==
  /\ now = NowStart
  /\ tz = 0
  /\ lastIndex = NoCursors
  /\ pc = "idle"
  /\ text = <<>>
  /\ result = <<>>
  /\ calledAt = NowStart
  /\ candidates \in CandidateLists
  /\ selected = <<>>
  /\ request = <<>>
  /\ vendorResult = <<>>
  /\ movements = <<>>
  /\ NotInitialized

Select ==
  /\ pc = "idle"
  /\ pc' = "selected"
  /\ selected' = SelectAmount(candidates)
  /\ UNCHANGED <<now, tz, lastIndex, text, result, calledAt, candidates, request, vendorResult, movements, workerVars>>

SelNext == Select

SelSpec == SelInit /\ [][SelNext]_vars

\* The selection at the end of extractDate, on its own: the candidates are
\* drawn from DateCandidateLists and the selection is applied to them.
DateSelInit ==
  /\ now \in {NowStart, NowStart + TickHours}
  /\ tz = 0
  /\ lastIndex = NoCursors
  /\ pc = "idle"
  /\ text = <<>>
  /\ result = <<>>
  /\ calledAt = NowStart
  /\ candidates \in DateCandidateLists
  /\ selected = <<>>
  /\ request = <<>>
  /\ vendorResult = <<>>
  /\ movements = <<>>
  /\ NotInitialized

SelectDates ==
  /\ pc = "idle"
  /\ pc' = "dateSelected"
  /\ selected' = SelectDate(candidates, now)
  /\ UNCHANGED <<now, tz, lastIndex, text, result, calledAt, candidates, request, vendorResult, movements, workerVars>>

DateSelNext == SelectDates

DateSelSpec == DateSelInit /\ [][DateSelNext]_vars

\* The classification of the vendor, on its own: the vendor is drawn from
\* VendorResults and the classification step of extractMovementData is
\* applied to it.
CatInit ==
  /\ now = NowStart
  /\ tz = 0
  /\ lastIndex = NoCursors
  /\ pc = "idle"
  /\ text = <<>>
  /\ result = <<>>
  /\ calledAt = NowStart
  /\ candidates = <<>>
  /\ selected = <<>>
  /\ request = <<>>
  /\ vendorResult \in VendorResults
  /\ movements = <<>>
  /\ NotInitialized

\* if (vendorResult) categoryData = detectCategory(vendorResult.value)
Classify ==
  /\ pc = "idle"
  /\ pc' = "classified"
  /\ result' = CategoryOfVendor(vendorResult)
  /\ UNCHANGED <<now, tz, lastIndex, text, calledAt, candidates, selected, request, vendorResult, movements, workerVars>>

CatNext == Classify

CatSpec == CatInit /\ [][CatNext]_vars

\* ------------------------------------------------------------------------
\* The recognition worker of the service: initialize, processImage and
\* terminate.  The calls run on one thread and interleave at their awaits;
\* each action is the code between two awaits.
\* ------------------------------------------------------------------------

\* everything but the worker fields
engineVars == <<now, tz, lastIndex, pc, text, result, calledAt, candidates, selected, request, vendorResult, movements>>

WorkerInit ==
  /\ now = NowStart
  /\ tz = 0
  /\ lastIndex = NoCursors
  /\ pc = "idle"
  /\ text = <<>>
  /\ result = <<>>
  /\ calledAt = NowStart
  /\ candidates = <<>>
  /\ selected = <<>>
  /\ request = <<>>
  /\ vendorResult = <<>>
  /\ movements = <<>>
  /\ NotInitialized

\* call c moves on to pc, holding worker w
Goto(c, to, w) == procs' = [procs EXCEPT ![c] = [pc |-> to, worker |-> w]]

\* the part of processImage after initialization, up to its next await:
\* preprocessImage is awaited unless options.preprocessImage is false, and
\* then this.worker.recognize is called
Proceed(c, preprocess) ==
  IF preprocess THEN Goto(c, "preprocessing", 0) ELSE Goto(c, "recognizing", worker)

\* processImage is called: when the service is not initialized, initialize
\* is entered, passes its own check and calls createWorker
ProcessImage(c, preprocess) ==
  /\ procs[c].pc = "idle"
  /\ IF ~isInitialized
     THEN /\ workers' = Append(workers, "starting")
          /\ Goto(c, "creating", Len(workers) + 1)
     ELSE /\ Proceed(c, preprocess)
          /\ UNCHANGED workers
  /\ UNCHANGED <<worker, isInitialized, engineVars>>

\* createWorker resolves: initialize stores the worker and sets the flag
WorkerCreated(c) ==
  /\ procs[c].pc = "creating"
  /\ workers' = [workers EXCEPT ![procs[c].worker] = "ready"]
  /\ worker' = procs[c].worker
  /\ isInitialized' = TRUE
  /\ Goto(c, "initialized", 0)
  /\ UNCHANGED engineVars

\* createWorker rejects: initialize throws and so does processImage
CreateWorkerFails(c) ==
  /\ procs[c].pc = "creating"
  /\ workers' = [workers EXCEPT ![procs[c].worker] = "failed"]
  /\ Goto(c, "failed", 0)
  /\ UNCHANGED <<worker, isInitialized, engineVars>>

\* processImage resumes after await this.initialize()
Initialized(c, preprocess) ==
  /\ procs[c].pc = "initialized"
  /\ Proceed(c, preprocess)
  /\ UNCHANGED <<worker, isInitialized, workers, engineVars>>

\* preprocessImage resolves and this.worker.recognize is called
Preprocessed(c) ==
  /\ procs[c].pc = "preprocessing"
  /\ Goto(c, "recognizing", worker)
  /\ UNCHANGED <<worker, isInitialized, workers, engineVars>>

\* recognize settles: it resolves on a live worker and rejects on a
\* terminated one
Recognized(c) ==
  /\ procs[c].pc = "recognizing"
  /\ Goto(c, IF workers[procs[c].worker] = "ready" THEN "done" ELSE "failed", 0)
  /\ UNCHANGED <<worker, isInitialized, workers, engineVars>>

\* terminate is called: it ends this.worker when the service is initialized
Terminate ==
  /\ procs["terminate"].pc = "idle"
  /\ IF worker # 0 /\ isInitialized
     THEN /\ workers' = [workers EXCEPT ![worker] = "terminated"]
          /\ Goto("terminate", "terminating", worker)
     ELSE /\ Goto("terminate", "done", 0)
          /\ UNCHANGED workers
  /\ UNCHANGED <<worker, isInitialized, engineVars>>

\* worker.terminate() resolves and the flag is cleared
Terminated ==
  /\ procs["terminate"].pc = "terminating"
  /\ isInitialized' = FALSE
  /\ Goto("terminate", "done", 0)
  /\ UNCHANGED <<worker, workers, engineVars>>

WorkerNext ==
  \/ \E c \in ProcessImageCalls, preprocess \in BOOLEAN : ProcessImage(c, preprocess)
  \/ \E c \in ProcessImageCalls : WorkerCreated(c)
  \/ \E c \in ProcessImageCalls : CreateWorkerFails(c)
  \/ \E c \in ProcessImageCalls, preprocess \in BOOLEAN : Initialized(c, preprocess)
  \/ \E c \in ProcessImageCalls : Preprocessed(c)
  \/ \E c \in ProcessImageCalls : Recognized(c)
  \/ Terminate
  \/ Terminated

WorkerSpec == WorkerInit /\ [][WorkerNext]_vars

\* ------------------------------------------------------------------------
\* The image path: aiService.extractMovementFromImage and OCRController
\* ------------------------------------------------------------------------

\* MovementSchema.tipo: z.enum(['ingreso', 'egreso'])
Tipos == {"ingreso", "egreso"}

\* MovementSchema.categoria
Categorias ==
  {"Salario", "Freelance", "Inversiones", "Bonos", "Ventas", "Otros Ingresos",
   "Alimentación", "Transporte", "Servicios", "Entretenimiento", "Salud",
   "Educación", "Compras", "Vivienda", "Seguros", "Impuestos", "Otros Gastos"}

\* the amounts, dates, descriptions, vendors and confidences the answers of
\* the vision model are drawn from; a date is a string, '' included, and a
\* description or a vendor is <<>> for null
AiMontos == {Whole(0), [ip |-> 1234, fp |-> <<"5", "6">>]}

AiFechas == {<<>>, IsoDate(NowStart - 4 * HoursPerDay), IsoDate(NowStart + 6 * HoursPerDay)}

AiDescripciones == {<<>>, <<"">>, <<"Compra">>}

AiVendors == {<<>>, <<"OXXO">>}

AiConfidences ==
  {[monto |-> 90, fecha |-> 90, vendor |-> 0, overall |-> 60],
   [monto |-> 40, fecha |-> 0, vendor |-> 0, overall |-> 0]}

\* AIMovementExtraction: the objects the structured answer can be parsed to
AIMovementExtraction ==
  [tipo : Tipos, categoria : Categorias, monto : AiMontos,
   descripcion : AiDescripciones, fecha : AiFechas, vendor : AiVendors,
   confidence : AiConfidences]

\* the messages of the errors extractMovementFromImage throws
ErrorInvalidKey == <<"A", "P", "I", " ", "K", "e", "y", " ", "d", "e", " ", "O", "p", "e", "n", "A", "I", " ", "i", "n", "v", "á", "l", "i", "d", "a">>

ErrorQuota == <<"C", "u", "o", "t", "a", " ", "d", "e", " ", "O", "p", "e", "n", "A", "I", " ", "a", "g", "o", "t", "a", "d", "a">>

ErrorServer == <<"E", "r", "r", "o", "r", " ", "i", "n", "t", "e", "r", "n", "o", " ", "d", "e", " ", "O", "p", "e", "n", "A", "I">>

ErrorProcessing == <<"E", "r", "r", "o", "r", " ", "p", "r", "o", "c", "e", "s", "a", "n", "d", "o", " ", "i", "m", "a", "g", "e", "n", " ", "c", "o", "n", " ", "A", "I", ":", " ", "t", "i", "m", "e", "o", "u", "t">>

AIErrors == {ErrorInvalidKey, ErrorQuota, ErrorServer, ErrorProcessing}

\* what a call of extractMovementFromImage ends with: an object or an error
AIOutcomes ==
  {[ok |-> TRUE, data |-> d] : d \in AIMovementExtraction}
    \cup {[ok |-> FALSE, message |-> m] : m \in AIErrors}

\* req.body.image: absent, without the data:image prefix, or well formed
Images == {"none", "malformed", "base64"}

\* req.user._id
Users == {"u1", "u2"}

\* the requests of extractFromImage
OCRRequests == [image : Images, autoCreateMovement : BOOLEAN, user : Users]

\* the setter of Movement.monto: Math.round(value * 100)
Cents(a) ==
  LET d1 == IF Len(a.fp) >= 1 THEN DigitVal(a.fp[1]) ELSE 0
      d2 == IF Len(a.fp) >= 2 THEN DigitVal(a.fp[2]) ELSE 0
      d3 == IF Len(a.fp) >= 3 THEN DigitVal(a.fp[3]) ELSE 0
  IN a.ip * 100 + d1 * 10 + d2 + (IF d3 >= 5 THEN 1 ELSE 0)

\* the getter of Movement.monto: value / 100
FromCents(c) ==
  [ip |-> c \div 100,
   fp |-> StripZeros(<<DigitChars[((c \div 10) % 10) + 1], DigitChars[(c % 10) + 1]>>)]

\* a || b on strings: null and '' are falsy
OrElse(v, d) == IF v # <<>> /\ v[1] # "" THEN v[1] ELSE d

\* movementDate: new Date(extractedData.fecha), or new Date() without one
MovementDate(fecha, clock) == IF fecha # <<>> THEN DateOfIso(fecha) ELSE clock

\* new Movement({...}) of extractFromImage
NewMovement(user, data, clock) ==
  [userId |-> user,
   tipo |-> data.tipo,
   categoria |-> data.categoria,
   monto |-> Cents(data.monto),
   descripcion |-> OrElse(data.descripcion, "Factura procesada por AI"),
   fecha |-> MovementDate(data.fecha, clock)]

\* max: [999999999.99, ...] of Movement.monto, applied to the stored integer
MaxStoredMonto == 999999999

\* the validators of the Movement model and its pre-save hook
MovementValid(doc, clock) ==
  /\ doc.tipo \in Tipos
  /\ doc.categoria \in Categorias
  /\ doc.monto >= 1
  /\ doc.monto <= MaxStoredMonto
  /\ doc.fecha <= clock

\* createdMovement as it is serialised: the getters are applied
MovementJson(doc) == [doc EXCEPT !.monto = FromCents(doc.monto)]

\* a save that succeeds whatever the database does
SavedMovementAlways(doc, clock, dbUp) == <<MovementJson(doc)>>

\* newMovement.save() inside its try block: the document, or null when the
\* validation or the database fails
SavedMovement(doc, clock, dbUp) ==
  IF dbUp /\ MovementValid(doc, clock) THEN <<MovementJson(doc)>> ELSE <<>>

\* autoCreateMovement && extractedData.monto && extractedData.monto > 0
CreatedMovement(req, data, clock, dbUp) ==
  IF req.autoCreateMovement /\ NumLess(Whole(0), data.monto)
  THEN SavedMovement(NewMovement(req.user, data, clock), clock, dbUp)
  ELSE <<>>

\* the answer for an extraction that succeeded
ExtractionResponse(req, data, clock, dbUp) ==
  [status |-> 200, success |-> TRUE, extractedData |-> <<data>>,
   movement |-> CreatedMovement(req, data, clock, dbUp),
   confidence |-> <<data.confidence.overall>>]

Failure(status) ==
  [status |-> status, success |-> FALSE, extractedData |-> <<>>,
   movement |-> <<>>, confidence |-> <<>>]

\* the catch block of extractFromImage
ErrorResponse(message) ==
  IF Includes(message, <<"A", "P", "I", " ", "K", "e", "y">>) THEN Failure(503)
  ELSE IF Includes(message, <<"c", "u", "o", "t", "a">>) THEN Failure(503)
  ELSE IF Includes(message, <<"i", "m", "a", "g", "e", "n">>) THEN Failure(400)
  ELSE Failure(500)

\* OCRController.extractFromImage: the answer to req when the vision model
\* ends with outcome
extractFromImage(req, outcome, clock, dbUp) ==
  IF req.image # "base64" THEN Failure(400)
  ELSE IF outcome.ok THEN ExtractionResponse(req, outcome.data, clock, dbUp)
  ELSE ErrorResponse(outcome.message)

\* new Movement({...}) of processAndCreate
NewMovementAI(user, data, clock) ==
  [userId |-> user,
   tipo |-> data.tipo,
   categoria |-> data.categoria,
   monto |-> Cents(data.monto),
   descripcion |-> OrElse(data.descripcion,
                          "Factura AI - " \o OrElse(data.vendor, "Proveedor desconocido")),
   fecha |-> MovementDate(data.fecha, clock)]

\* the answer of processAndCreate when no amount above 0 was extracted
NoAmountResponse(data) ==
  [status |-> 400, success |-> FALSE, extractedData |-> <<data>>,
   movement |-> <<>>, confidence |-> <<data.confidence.overall>>]

\* the answer of processAndCreate for the movement it saved
CreatedResponse(data, doc) ==
  [status |-> 201, success |-> TRUE, extractedData |-> <<data>>,
   movement |-> <<MovementJson(doc)>>, confidence |-> <<data.confidence.overall>>]

\* newMovement.save() of processAndCreate and its catch block: a
\* ValidationError is answered with 400, any other error with 500
SaveOrFail(data, doc, clock, dbUp) ==
  IF ~dbUp THEN Failure(500)
  ELSE IF ~MovementValid(doc, clock) THEN Failure(400)
  ELSE CreatedResponse(data, doc)

\* OCRController.processAndCreate: the answer to req when the vision model
\* ends with outcome
processAndCreate(req, outcome, clock, dbUp) ==
  IF req.image # "base64" THEN Failure(400)
  ELSE IF ~outcome.ok THEN Failure(500)
  ELSE IF ~NumLess(Whole(0), outcome.data.monto) THEN NoAmountResponse(outcome.data)
  ELSE SaveOrFail(outcome.data, NewMovementAI(req.user, outcome.data, clock), clock, dbUp)

\* the documents a request inserted: doc when the answer carries a movement
DocsOf(response, doc) == IF response.movement # <<>> THEN <<doc>> ELSE <<>>

\* the request as it is remembered beside its answer
Posted(route, req, outcome, dbUp) ==
  <<[route |-> route, body |-> req, outcome |-> outcome, dbUp |-> dbUp]>>

AiInit ==
  /\ now = NowStart
  /\ tz = 0
  /\ lastIndex = NoCursors
  /\ pc = "idle"
  /\ text = <<>>
  /\ result = <<>>
  /\ calledAt = NowStart
  /\ candidates = <<>>
  /\ selected = <<>>
  /\ request = <<>>
  /\ vendorResult = <<>>
  /\ movements = <<>>
  /\ NotInitialized

\* a client posts req to extractFromImage; the answer is kept in result
ExtractFromImage(req, outcome, dbUp) ==
  /\ pc = "idle"
  /\ pc' = "responded"
  /\ request' = Posted("extractFromImage", req, outcome, dbUp)
  /\ result' = <<extractFromImage(req, outcome, now, dbUp)>>
  /\ movements' = movements \o
       (IF outcome.ok
        THEN DocsOf(extractFromImage(req, outcome, now, dbUp),
                    NewMovement(req.user, outcome.data, now))
        ELSE <<>>)
  /\ calledAt' = now
  /\ UNCHANGED <<now, tz, lastIndex, text, candidates, selected, vendorResult, workerVars>>

\* a client posts req to processAndCreate; the answer is kept in result
ProcessAndCreate(req, outcome, dbUp) ==
  /\ pc = "idle"
  /\ pc' = "responded"
  /\ request' = Posted("processAndCreate", req, outcome, dbUp)
  /\ result' = <<processAndCreate(req, outcome, now, dbUp)>>
  /\ movements' = movements \o
       (IF outcome.ok
        THEN DocsOf(processAndCreate(req, outcome, now, dbUp),
                    NewMovementAI(req.user, outcome.data, now))
        ELSE <<>>)
  /\ calledAt' = now
  /\ UNCHANGED <<now, tz, lastIndex, text, candidates, selected, vendorResult, workerVars>>

\* one request is posted and answered
AiNext ==
  /\ pc = "idle"
  /\ \E req \in OCRRequests, outcome \in AIOutcomes, dbUp \in BOOLEAN :
       \/ ExtractFromImage(req, outcome, dbUp)
       \/ ProcessAndCreate(req, outcome, dbUp)

AiSpec == AiInit /\ [][AiNext]_vars

\* ------------------------------------------------------------------------
\* The movement API: MovementService behind MovementController and the
\* validation middleware.  A document is a record of the fields of the
\* schema, monto as the setter stored it; createdBy is no field of the
\* document: it remembers the user who created it.
\* ------------------------------------------------------------------------

\* the collection holds at most this many documents
MaxMovements == 2

MovementIds == 1..MaxMovements

Amount1234 == [ip |-> 12, fp |-> <<"3", "4">>]

PastFecha == IsoDate(NowStart - 4 * HoursPerDay)

EarlierFecha == IsoDate(NowStart - 9 * HoursPerDay)

FutureFecha == IsoDate(NowStart + 6 * HoursPerDay)

\* req.body of POST /api/movements
CreateBodies ==
  [tipo : Tipos, categoria : {"Otros Gastos"}, monto : {Whole(0), Whole(5), Amount1234},
   descripcion : {<<>>}, fecha : {PastFecha, FutureFecha}]

\* req.body of PATCH /api/movements/:id with none of its fields
NoFields ==
  [tipo |-> <<>>, categoria |-> <<>>, monto |-> <<>>, descripcion |-> <<>>,
   fecha |-> <<>>, userId |-> <<>>]

\* req.body of PATCH /api/movements/:id: any of the five fields, and
\* whatever else the client sends, a userId among it
UpdateBodies ==
  { NoFields,
    [NoFields EXCEPT !.tipo = <<"ingreso">>],
    [NoFields EXCEPT !.monto = <<Whole(5)>>],
    [NoFields EXCEPT !.monto = <<Whole(0)>>],
    [NoFields EXCEPT !.categoria = <<"Salario">>, !.fecha = <<EarlierFecha>>],
    [NoFields EXCEPT !.fecha = <<FutureFecha>>],
    [NoFields EXCEPT !.descripcion = <<"Compra">>] }
    \cup { [NoFields EXCEPT !.userId = <<u>>] : u \in Users }
    \cup { [NoFields EXCEPT !.descripcion = <<"Compra">>, !.userId = <<u>>] : u \in Users }

\* the answers of the movement API
MovementResponse(status, movement, listed, summary) ==
  [status |-> status, success |-> status < 400, movement |-> movement,
   movements |-> listed, summary |-> summary]

Rejected(status) == MovementResponse(status, <<>>, <<>>, <<>>)

\* monto > 999999999.99 is refused
MaxMonto == [ip |-> 999999999, fp |-> <<"9", "9">>]

\* validateCreateMovement: next() is called
validateCreateMovement(body, clock) ==
  /\ body.tipo \in Tipos
  /\ body.categoria \in Categorias
  /\ NumLess(Whole(0), body.monto)
  /\ NumLeq(body.monto, MaxMonto)
  /\ DateOfIso(body.fecha) <= clock

\* validateUpdateMovement: next() is called
validateUpdateMovement(body, clock) ==
  /\ ~(body.tipo = <<>> /\ body.categoria = <<>> /\ body.monto = <<>>
       /\ body.fecha = <<>> /\ body.descripcion = <<>>)
  /\ body.tipo # <<>> => body.tipo[1] \in Tipos
  /\ body.categoria # <<>> => body.categoria[1] \in Categorias
  /\ body.monto # <<>> =>
       /\ NumLess(Whole(0), body.monto[1])
       /\ NumLeq(body.monto[1], MaxMonto)
  /\ body.fecha # <<>> => DateOfIso(body.fecha[1]) <= clock

\* new Movement({...}) of createMovement, with the _id it is given
CreatedDocument(id, userId, movementData) ==
  [id |-> id, createdBy |-> userId, userId |-> userId,
   tipo |-> movementData.tipo, categoria |-> movementData.categoria,
   monto |-> Cents(movementData.monto), descripcion |-> movementData.descripcion,
   fecha |-> DateOfIso(movementData.fecha)]

\* the documents that match the filter { _id, userId }
Matching(docs, id, userId) ==
  { i \in DOMAIN docs : docs[i].id = id /\ docs[i].userId = userId }

\* processedData applied to doc as $set: every key of the body that is a
\* path of the schema is written
Updated(doc, processedData) ==
  [doc EXCEPT
     !.tipo = IF processedData.tipo # <<>> THEN processedData.tipo[1] ELSE @,
     !.categoria = IF processedData.categoria # <<>> THEN processedData.categoria[1] ELSE @,
     !.monto = IF processedData.monto # <<>> THEN Cents(processedData.monto[1]) ELSE @,
     !.descripcion = IF processedData.descripcion # <<>> THEN processedData.descripcion ELSE @,
     !.fecha = IF processedData.fecha # <<>> THEN DateOfIso(processedData.fecha[1]) ELSE @,
     !.userId = IF processedData.userId # <<>> THEN processedData.userId[1] ELSE @]

\* docs without the document at position i
Without(docs, i) == SubSeq(docs, 1, i - 1) \o SubSeq(docs, i + 1, Len(docs))

\* the sum of the stored monto of the documents of userId with this tipo
RECURSIVE SumMonto(_, _, _)
SumMonto(docs, userId, tipo) ==
  IF docs = <<>> THEN 0
  ELSE (IF Head(docs).userId = userId /\ Head(docs).tipo = tipo THEN Head(docs).monto ELSE 0)
         + SumMonto(Tail(docs), userId, tipo)

\* a number that may be negative: its sign and its magnitude
Signed(n, magnitude) == [negative |-> n < 0, magnitude |-> magnitude]

\* getFinancialSummary: the sums of the aggregation as they come
getFinancialSummary(docs, userId) ==
  [totalIngresos |-> Whole(SumMonto(docs, userId, "ingreso")),
   totalEgresos |-> Whole(SumMonto(docs, userId, "egreso")),
   balance |-> Signed(SumMonto(docs, userId, "ingreso") - SumMonto(docs, userId, "egreso"),
                      Whole(Abs(SumMonto(docs, userId, "ingreso")
                                 - SumMonto(docs, userId, "egreso")))),
   movimientosCount |-> Len(SelectSeq(docs, LAMBDA d : d.userId = userId))]

\* find(filters).sort({fecha: -1}).lean(): the documents of userId as they
\* are stored, the latest fecha first
RECURSIVE SortedByFecha(_)
SortedByFecha(docs) ==
  IF docs = <<>> THEN <<>>
  ELSE LET latest == CHOOSE i \in DOMAIN docs :
                       /\ \A j \in DOMAIN docs : docs[j].fecha <= docs[i].fecha
                       /\ \A j \in 1..(i - 1) : docs[j].fecha < docs[i].fecha
       IN <<docs[latest]>> \o SortedByFecha(Without(docs, latest))

\* a lean document: plain stored values, no getters
Lean(doc) == [doc EXCEPT !.monto = Whole(doc.monto)]

LeanAll(docs) == [i \in DOMAIN docs |-> Lean(docs[i])]

\* getMovements with the default query
getMovements(docs, userId) ==
  MovementResponse(200, <<>>,
                   <<LeanAll(SortedByFecha(SelectSeq(docs, LAMBDA d : d.userId = userId)))>>,
                   <<getFinancialSummary(docs, userId)>>)

\* getMovementById: the document, serialised with its getters
getMovementById(docs, userId, id) ==
  IF Matching(docs, id, userId) = {} THEN Rejected(404)
  ELSE MovementResponse(200, <<MovementJson(docs[CHOOSE i \in Matching(docs, id, userId) : TRUE])>>,
                        <<>>, <<>>)

\* what is remembered of a request beside its answer
Sent(route, userId, id) == <<[route |-> route, user |-> userId, id |-> id]>>

MovInit ==
  /\ now = NowStart
  /\ tz = 0
  /\ lastIndex = NoCursors
  /\ pc = "idle"
  /\ text = <<>>
  /\ result = <<>>
  /\ calledAt = NowStart
  /\ candidates = <<>>
  /\ selected = <<>>
  /\ request = <<>>
  /\ vendorResult = <<>>
  /\ movements = <<>>
  /\ NotInitialized

\* the variables the movement API leaves alone
apartVars == <<now, tz, lastIndex, pc, text, calledAt, candidates, selected, vendorResult, workerVars>>

\* POST /api/movements
CreateMovement(userId, body, id) ==
  /\ \A i \in DOMAIN movements : movements[i].id # id
  /\ request' = Sent("createMovement", userId, id)
  /\ IF validateCreateMovement(body, now)
        /\ MovementValid(CreatedDocument(id, userId, body), now)
     THEN /\ movements' = Append(movements, CreatedDocument(id, userId, body))
          /\ result' = <<MovementResponse(201, <<MovementJson(CreatedDocument(id, userId, body))>>,
                                          <<>>, <<>>)>>
     ELSE /\ movements' = movements
          /\ result' = <<Rejected(400)>>
  /\ UNCHANGED apartVars

\* the collection after findOneAndUpdate on the document at position i
UpdatedAt(docs, i, body) == [docs EXCEPT ![i] = Updated(docs[i], body)]

\* PATCH /api/movements/:id
UpdateMovement(userId, id, body) ==
  /\ request' = Sent("updateMovement", userId, id)
  /\ IF ~validateUpdateMovement(body, now)
     THEN movements' = movements /\ result' = <<Rejected(400)>>
     ELSE IF Matching(movements, id, userId) = {}
     THEN movements' = movements /\ result' = <<Rejected(404)>>
     ELSE \E i \in Matching(movements, id, userId) :
            IF MovementValid(Updated(movements[i], body), now)
            THEN /\ movements' = UpdatedAt(movements, i, body)
                 /\ result' = <<MovementResponse(200, <<MovementJson(Updated(movements[i], body))>>,
                                                 <<>>, <<>>)>>
            ELSE movements' = movements /\ result' = <<Rejected(400)>>
  /\ UNCHANGED apartVars

\* DELETE /api/movements/:id
DeleteMovement(userId, id) ==
  /\ request' = Sent("deleteMovement", userId, id)
  /\ IF Matching(movements, id, userId) = {}
     THEN movements' = movements /\ result' = <<Rejected(404)>>
     ELSE \E i \in Matching(movements, id, userId) :
            /\ movements' = Without(movements, i)
            /\ result' = <<MovementResponse(200, <<>>, <<>>, <<>>)>>
  /\ UNCHANGED apartVars

\* GET /api/movements
GetMovements(userId) ==
  /\ request' = Sent("getMovements", userId, 0)
  /\ result' = <<getMovements(movements, userId)>>
  /\ UNCHANGED <<movements, apartVars>>

\* GET /api/movements/:id
GetMovementById(userId, id) ==
  /\ request' = Sent("getMovementById", userId, id)
  /\ result' = <<getMovementById(movements, userId, id)>>
  /\ UNCHANGED <<movements, apartVars>>

MovNext ==
  \/ \E userId \in Users, body \in CreateBodies, id \in MovementIds : CreateMovement(userId, body, id)
  \/ \E userId \in Users, id \in MovementIds, body \in UpdateBodies : UpdateMovement(userId, id, body)
  \/ \E userId \in Users, id \in MovementIds : DeleteMovement(userId, id)
  \/ \E userId \in Users : GetMovements(userId)
  \/ \E userId \in Users, id \in MovementIds : GetMovementById(userId, id)

MovSpec == MovInit /\ [][MovNext]_vars

\* ------------------------------------------------------------------------
\* Properties of extractMovementData
\* ------------------------------------------------------------------------

Returned == pc = "returned" /\ result # <<>>

Record == result[1]

LinesOf(t) == Split(t, "\n")

\* the confidences of the fields that are present in the record r
PresentConfidences(r) ==
  (IF r.monto # <<>> THEN <<r.confidence.monto[1]>> ELSE <<>>)
  \o (IF r.fecha # <<>> THEN <<r.confidence.fecha[1]>> ELSE <<>>)
  \o (IF r.vendor # <<>> THEN <<r.confidence.vendor[1]>> ELSE <<>>)

\* C1: for every text (empty, white space only and text that matches no
\* pattern included) the call ends by returning a record, and the record's
\* confidence.overall is set and lies between 0 and 100.
OverallInRange ==
  pc = "returned" =>
    /\ result # <<>>
    /\ Record.confidence.overall # <<>>
    /\ Record.confidence.overall[1] \in 0..100

\* C1 witness: a call with a text of white space only has returned, with an
\* overall confidence of 0.
OverallOfBlankText ==
  /\ Returned
  /\ text = LineGap
  /\ Record.confidence.overall = <<0>>

\* C2: every record returned has tipo 'egreso', whatever vendor was found
\* and whatever the classifier returned.
TipoIsEgreso == Returned => Record.tipo = <<"egreso">>

\* C2 witness: a record whose vendor the classifier mapped to a category,
\* with tipo 'egreso'.
TipoOfClassifiedVendor ==
  /\ Returned
  /\ Record.vendor # <<>>
  /\ Record.categoria # <<>>
  /\ Record.tipo = <<"egreso">>

\* C3, as the code has it: a call with the text of the previous call, made
\* at the clock reading of that call, returns the identical record, and no
\* expression keeps a cursor position from one call to the next.
SameClockSameRecord ==
  [][pc = "called" /\ result # <<>> /\ calledAt = now
       => result' = result /\ lastIndex' = NoCursors]_vars

\* C3 witness: a text with a date is being extracted a second time at the
\* clock reading of the first call, whose record holds a date.
SecondCallAtSameClock ==
  /\ pc = "called"
  /\ result # <<>>
  /\ calledAt = now
  /\ Includes(text, LineFecha)
  /\ Record.fecha # <<>>

\* C3, as stated: a call with the text of the previous call returns the
\* identical record whenever it is made.
AnyClockSameRecord ==
  [][pc = "called" /\ result # <<>> => result' = result]_vars

\* C4, as the code has it: confidence.overall is the arithmetic mean of the
\* confidences of the fields present in the record, rounded to the nearest
\* integer (a half rounds up), and 0 when none is present.
OverallIsRoundedMean ==
  Returned =>
    LET values == PresentConfidences(Record)
        n == Len(values)
        overall == Record.confidence.overall[1]
    IN IF n = 0 THEN overall = 0
       ELSE /\ 2 * n * overall <= 2 * SumSeq(values) + n
            /\ 2 * SumSeq(values) + n < 2 * n * (overall + 1)

\* C4 witness: amount, date and vendor are present with confidences 75, 95
\* and 75, whose mean is not an integer, and overall is 82.
OverallOfThreeFields ==
  /\ Returned
  /\ PresentConfidences(Record) = <<ConfTailLines, ConfFechaLine, ConfVendor>>
  /\ Record.confidence.overall = <<82>>

\* C4, as stated: confidence.overall is exactly the arithmetic mean of the
\* confidences of the fields present, and 0 when none is present.
OverallIsMean ==
  Returned =>
    LET values == PresentConfidences(Record)
        n == Len(values)
        overall == Record.confidence.overall[1]
    IN IF n = 0 THEN overall = 0 ELSE n * overall = SumSeq(values)

\* C5: an amount that is returned lies between 0.01 and 999999999.99.
AmountInRange ==
  Returned /\ Record.monto # <<>> =>
    /\ NumLeq([ip |-> 0, fp |-> <<"0", "1">>], Record.monto[1])
    /\ NumLeq(Record.monto[1], [ip |-> MaxAmount, fp |-> <<"9", "9">>])

\* C5 witness: a text with a ten-digit number and a total line returns the
\* amount of the total line, 1234.56.
AmountBesidePhoneNumber ==
  /\ Returned
  /\ text = JoinLines(<<LinePhone, LineTotal>>)
  /\ Record.monto = <<[ip |-> 1234, fp |-> <<"5", "6">>]>>

\* the text holds the word w in some letter case
HasWord(t, w) == Includes(LowerCase(t), w)

\* C6: for a text that contains "Empresa: OXXO" and neither "total" nor
\* "fecha", the record has vendor "OXXO" with confidence 75, the category
\* Alimentación and tipo 'egreso'.
ScenarioD ==
  Returned /\ Includes(text, LineEmpresa)
           /\ ~HasWord(text, <<"t", "o", "t", "a", "l">>) /\ ~HasWord(text, <<"f", "e", "c", "h", "a">>)
    => /\ Record.vendor = << <<"O", "X", "X", "O">> >>
       /\ Record.confidence.vendor = <<ConfVendor>>
       /\ Record.categoria = <<"Alimentación">>
       /\ Record.tipo = <<"egreso">>

\* C7: for a text that contains "Fecha: 15/03/2024", read on 15 March 2024
\* or later, the record has the date 2024-03-15 with confidence 95.
ScenarioC ==
  Returned /\ Includes(text, LineFecha)
           /\ calledAt >= DaysFromCivil(2024, 3, 15) * HoursPerDay
    => /\ Record.fecha = << <<"2", "0", "2", "4", "-", "0", "3", "-", "1", "5">> >>
       /\ Record.confidence.fecha = <<ConfFechaLine>>

\* C8: for a text with the line "TOTAL: $1,234.56" the record has the
\* amount 1234.56 with confidence 95.
ScenarioA ==
  Returned /\ (\E i \in DOMAIN LinesOf(text) : LinesOf(text)[i] = LineTotal)
    => /\ Record.monto = <<[ip |-> 1234, fp |-> <<"5", "6">>]>>
       /\ Record.confidence.monto = <<ConfTotalLine>>

\* C9: for a text without the word "total" whose last ten lines hold the
\* line "44017,00" and no other number, the record has the amount 44017
\* with confidence 75.
ScenarioB ==
  LET last == LastN(LinesOf(text), TailLines) IN
  Returned /\ ~HasWord(text, <<"t", "o", "t", "a", "l">>)
           /\ (\E i \in DOMAIN last : last[i] = LineDecimalComma)
           /\ (\A i \in DOMAIN last : last[i] \in {LineDecimalComma, <<>>})
    => /\ Record.monto = <<Whole(44017)>>
       /\ Record.confidence.monto = <<ConfTailLines>>

\* the optional fields of the record r
OptionalFields(r) ==
  <<r.monto, r.fecha, r.vendor, r.descripcion, r.categoria, r.rfc, r.folio,
    r.subtotal, r.iva>>

\* C11: for the empty string the call returns a record in which amount,
\* date, vendor, description, category, tax-ID, folio, subtotal and tax are
\* all absent and confidence.overall is 0.
ScenarioE ==
  pc = "returned" /\ text = <<>> =>
    /\ result # <<>>
    /\ \A i \in DOMAIN OptionalFields(Record) : OptionalFields(Record)[i] = <<>>
    /\ Record.confidence.overall = <<0>>

\* C11 witness: the call with the empty string has returned a record without
\* an amount, whose confidences of amount, date and vendor are not set.
EmptyStringReturned ==
  /\ Returned
  /\ text = <<>>
  /\ Record.monto = <<>>
  /\ PresentConfidences(Record) = <<>>

\* the values of the candidates cands
ValuesOf(cands) == {cands[i].value : i \in DOMAIN cands}

\* the largest of the numbers ns
Largest(ns) == CHOOSE a \in ns : \A b \in ns : NumLeq(b, a)

\* C13: when some line of the text holds "total" and a number in
\* [100, 999999999], the amount is the largest number of the lines that
\* hold "total", with confidence 95; numbers of other lines are not
\* candidates.
AmountLabeledTier ==
  Returned /\ TotalLineAmounts(LinesOf(text), 1) # <<>> =>
    /\ Record.monto = <<Largest(ValuesOf(TotalLineAmounts(LinesOf(text), 1)))>>
    /\ Record.confidence.monto = <<ConfTotalLine>>

\* C14: when some line of the text holds "fecha" and an acceptable date, the
\* date returned is a date of such a line, with confidence 95; dates of
\* other lines are not candidates.
DateLabeledTier ==
  Returned /\ FechaLineDates(LinesOf(text), 1, calledAt, tz) # <<>> =>
    /\ Record.fecha # <<>>
    /\ Record.fecha[1] \in ValuesOf(FechaLineDates(LinesOf(text), 1, calledAt, tz))
    /\ Record.confidence.fecha = <<ConfFechaLine>>

\* C15: for a text without a candidate on a line with "total": with a
\* number >= 1000 in the last 10 lines the amount has confidence 75, and
\* with none there and a number in [1000, 999999999] on an earlier line the
\* amount is such a number, with confidence 50.
AmountCascadeOrder ==
  Returned /\ TotalLineAmounts(LinesOf(text), 1) = <<>> =>
    IF TailAmounts(LastN(LinesOf(text), TailLines), 1) # <<>>
    THEN Record.confidence.monto = <<ConfTailLines>>
    ELSE AnyLineAmounts(LinesOf(text), 1) # <<>> =>
           /\ Record.monto # <<>>
           /\ Record.monto[1] \in ValuesOf(AnyLineAmounts(LinesOf(text), 1))
           /\ Record.confidence.monto = <<ConfAnyLine>>

\* C16: for a text without a date on a line with "fecha": with a date in
\* the first 15 lines the date has confidence 75, and with none there and a
\* date on a later line the date is such a date, with confidence 50.
DateCascadeOrder ==
  Returned /\ FechaLineDates(LinesOf(text), 1, calledAt, tz) = <<>> =>
    IF LineDates(FirstN(LinesOf(text), HeadLines), 1, ConfHeadLines, calledAt, tz) # <<>>
    THEN Record.confidence.fecha = <<ConfHeadLines>>
    ELSE LineDates(LinesOf(text), 1, ConfAnyDate, calledAt, tz) # <<>> =>
           /\ Record.fecha # <<>>
           /\ Record.fecha[1] \in ValuesOf(LineDates(LinesOf(text), 1, ConfAnyDate, calledAt, tz))
           /\ Record.confidence.fecha = <<ConfAnyDate>>

\* the text after the label: the capture group of the first match of the
\* first of the patterns, from pattern k on, that matches s; <<>> when none
\* matches
RECURSIVE CapturedBy(_, _, _)
CapturedBy(patterns, k, s) ==
  IF k > Len(patterns) THEN <<>>
  ELSE IF ExecFrom(patterns[k].items, s, 1) # <<>>
       THEN <<StringMatchExec(patterns[k], s, 0).array[2]>>
       ELSE CapturedBy(patterns, k + 1, s)

\* the flattened text of the call
CleanText == Trim(CollapseWhiteSpace(text))

\* the vendor the captured text c stands for
CapturedVendor(c) == CollapseWhiteSpace(Trim(c))

\* C17: the vendor is the text captured after the label by the first vendor
\* pattern that matches the flattened text, trimmed and with white space
\* collapsed, with confidence 75, when that has more than 2 and fewer than
\* 100 characters; there is no vendor when no pattern matches.
VendorIsCapturedText ==
  Returned =>
    IF CapturedBy(VendorPatterns, 1, CleanText) = <<>>
    THEN Record.vendor = <<>>
    ELSE Len(CapturedVendor(CapturedBy(VendorPatterns, 1, CleanText)[1])) \in
             (MinVendorLength + 1)..(MaxVendorLength - 1)
           => /\ Record.vendor = <<CapturedVendor(CapturedBy(VendorPatterns, 1, CleanText)[1])>>
              /\ Record.confidence.vendor = <<ConfVendor>>

\* the field the capture c gives: the captured text trimmed, absent when
\* nothing was captured
CapturedField(c) == IF c = <<>> \/ c[1] = <<>> THEN <<>> ELSE <<Trim(c[1])>>

\* the number the capture c gives: the field without commas, parsed
CapturedNumber(c) ==
  IF CapturedField(c) = <<>> THEN <<>>
  ELSE ParseFloat(RemoveCommas(CapturedField(c)[1]))

\* C18: tax-ID, folio, subtotal and tax are the value captured after the
\* label by the first pattern of their list that matches the flattened
\* text, trimmed, subtotal and tax parsed as numbers after the commas are
\* removed; they are absent when no pattern matches.  A text that holds
\* "Subtotal: 1,000.00" once has the subtotal 1000.
AuxiliaryFieldsAreCaptured ==
  Returned =>
    /\ Record.rfc = CapturedField(CapturedBy(RfcPatterns, 1, CleanText))
    /\ Record.folio = CapturedField(CapturedBy(FolioPatterns, 1, CleanText))
    /\ Record.subtotal = CapturedNumber(CapturedBy(SubtotalPatterns, 1, CleanText))
    /\ Record.iva = CapturedNumber(CapturedBy(IvaPatterns, 1, CleanText))
    /\ text = LineSubtotal => Record.subtotal = <<Whole(1000)>>

\* C19: a text whose only date token is 2024-03-10, written YYYY-MM-DD and
\* not after now, has the date 2024-03-10.
IsoDateIsRead ==
  Returned /\ Includes(text, LineIso)
           /\ (\A i \in DOMAIN LinesOf(text) : LinesOf(text)[i] \in {LineIso, LineSubtotal})
    => Record.fecha = <<LineIso>>

\* the instant the token 15/03/2024 stands for in the zone of the process
TokenInstant == LocalDate(2024, 2, 15, tz)

\* C20: the date 15/03/2024 on the only line of the text is a candidate, and
\* so the date of the record, when it is read at most 365 days before that
\* day, and also whenever it is read on that day or later; it is dropped
\* when it is read more than 365 days before.
FutureDateFilter ==
  Returned /\ text = LineFecha =>
    IF TokenInstant - calledAt > FutureDays * HoursPerDay
    THEN Record.fecha = <<>>
    ELSE Record.fecha = <<IsoDate(TokenInstant + tz)>>

\* the text t is the line l, once or several times
Repeats(t, l) ==
  t # <<>> /\ \A i \in DOMAIN LinesOf(t) : LinesOf(t)[i] = l

\* C21, as the code has it: a whole number without decimals is a numeric
\* token when it has 4 or more digits.  A text that holds only the line
\* "TOTAL 5000" has that amount with confidence 95, and a text that holds
\* only the line "TOTAL 500" has no amount.
WholeNumberTokens ==
  Returned =>
    /\ Repeats(text, LineTotal5000) =>
          /\ Record.monto = <<Whole(5000)>>
          /\ Record.confidence.monto = <<ConfTotalLine>>
    /\ Repeats(text, LineTotal500) => Record.monto = <<>>

\* C21 witness: the text "TOTAL 500" was extracted and the record has no
\* amount, and no confidence of one.
NoAmountOfTotal500 ==
  /\ Returned
  /\ text = LineTotal500
  /\ Record.monto = <<>>
  /\ Record.confidence.monto = <<>>

\* C21, as stated: a text whose only line is "TOTAL 500" has the amount 500
\* with confidence 95.
ThreeDigitTotal ==
  Returned /\ text = LineTotal500 =>
    /\ Record.monto = <<Whole(500)>>
    /\ Record.confidence.monto = <<ConfTotalLine>>

\* C24: a text whose only date token is 15/03/2004, a date not after now,
\* has the date 2004-03-15.
FullYearDateUnchanged ==
  Returned /\ text = LineYear2004 =>
    Record.fecha = <<IsoDate(DaysFromCivil(2004, 3, 15) * HoursPerDay)>>

\* C25: a text whose only date token is 31/02/2024, which is no calendar
\* date, has no date.
UnrealDateDropped ==
  Returned /\ Repeats(text, LineFebruary31) => Record.fecha = <<>>

\* C26: a text whose only line is "TOTAL 1.234,56" has the amount 1234.56,
\* the amount of "TOTAL: $1,234.56".
EuropeanAmountKept ==
  Returned /\ Repeats(text, LineTotalEuropean) =>
    Record.monto = <<[ip |-> 1234, fp |-> <<"5", "6">>]>>

\* the distance of a date candidate to the clock
Distance(c) == Abs(DateOfIso(c.value) - now)

\* c is preferred to s among dates: by confidence when the confidences
\* differ by more than the tie window, by proximity to the clock otherwise
DateBeats(c, s) ==
  IF Abs(c.confidence - s.confidence) > TieWindow
  THEN c.confidence > s.confidence
  ELSE Distance(c) < Distance(s)

\* C22: the date selection returns null only when there is no candidate;
\* otherwise it returns a candidate to which no other is preferred: none
\* whose confidence is more than 10 points higher, and none of a
\* confidence within 10 points that is closer to the clock.
DateSelectionRule ==
  pc = "dateSelected" =>
    IF candidates = <<>> THEN selected = <<>>
    ELSE /\ selected # <<>>
         /\ \E i \in DOMAIN candidates : candidates[i] = selected[1]
         /\ \A i \in DOMAIN candidates : ~DateBeats(candidates[i], selected[1])

\* C22 witness: at noon of 2024-03-14, from 2024-03-20 at confidence 95 and
\* 2024-03-13 at confidence 90 the selection returned 2024-03-13, and 75
\* did not win against 95.
ClosestDateSelected ==
  /\ pc = "dateSelected"
  /\ now = NowStart
  /\ Len(candidates) = 3
  /\ candidates[1] = Candidate(IsoDate(DaysFromCivil(2024, 3, 20) * HoursPerDay), ConfFechaLine)
  /\ candidates[2] = Candidate(IsoDate(DaysFromCivil(2024, 3, 13) * HoursPerDay), 90)
  /\ candidates[3].confidence = ConfHeadLines
  /\ selected = <<candidates[2]>>

\* the entries of the table one of whose keywords is inside v
MatchingEntries(v) ==
  { k \in DOMAIN vendorCategoryMapping :
      \E j \in DOMAIN vendorCategoryMapping[k].keywords :
        Includes(v, vendorCategoryMapping[k].keywords[j]) }

\* the category and type of entry k of the table
EntryCategory(k) ==
  [categoria |-> vendorCategoryMapping[k].categoria, tipo |-> vendorCategoryMapping[k].tipo]

\* the first entry of es in declaration order
FirstEntry(es) == CHOOSE k \in es : \A e \in es : k <= e

\* what the claim says of the lowercased vendor v and the entries es that
\* match it
ClassifiedAs(v, es) ==
  IF es = {} THEN result = <<>> ELSE result = <<EntryCategory(FirstEntry(es))>>

\* C23: the category is that of the first entry of the table, in
\* declaration order, one of whose keywords is inside the lowercased
\* vendor; it is null when no entry matches, and no classification is made
\* when there is no vendor.
FirstMatchingEntry ==
  pc = "classified" =>
    IF vendorResult = <<>> THEN result = <<>>
    ELSE ClassifiedAs(LowerCase(vendorResult[1].value),
                      MatchingEntries(LowerCase(vendorResult[1].value)))

\* C23 witness: "TIENDA Gas" holds a keyword of the first entry (tienda)
\* and one of the last (gas), and is classified by the first.
EarlierEntryWins ==
  /\ pc = "classified"
  /\ vendorResult # <<>>
  /\ vendorResult[1].value = <<"T", "I", "E", "N", "D", "A", " ", "G", "a", "s">>
  /\ Cardinality(MatchingEntries(LowerCase(vendorResult[1].value))) = 2
  /\ result = <<[categoria |-> "Alimentación", tipo |-> "egreso"]>>

\* the workers createWorker was asked for and did not fail to create
Created == { w \in DOMAIN workers : workers[w] # "failed" }

\* C28: as long as terminate has not been called, createWorker is invoked
\* at most once however the processImage calls interleave, and every
\* worker that was created and not terminated is the one the service
\* refers to.
WorkerLifecycle ==
  /\ procs["terminate"].pc = "idle" => Cardinality(Created) <= 1
  /\ \A w \in DOMAIN workers : workers[w] = "ready" => worker = w

\* C27: every stored movement has the userId of the user who created it,
\* whatever create, update and delete requests were made and whatever
\* fields the bodies of the updates carried.
OwnershipImmutable ==
  \A i \in DOMAIN movements : movements[i].userId = movements[i].createdBy

\* the stored document with this id
Stored(id) == movements[CHOOSE i \in DOMAIN movements : movements[i].id = id]

\* the difference of the stored sums of the user who asked
StoredBalance ==
  SumMonto(movements, request[1].user, "ingreso") - SumMonto(movements, request[1].user, "egreso")

\* the summary in currency units: the sums of what getMovementById reports
SummaryInUnits(summary) ==
  /\ summary.totalIngresos = FromCents(SumMonto(movements, request[1].user, "ingreso"))
  /\ summary.totalEgresos = FromCents(SumMonto(movements, request[1].user, "egreso"))
  /\ summary.balance = Signed(StoredBalance, FromCents(Abs(StoredBalance)))

\* C30: the totals and the balance of the summary, and the monto of every
\* entry of the list of getMovements, are in currency units: they are the
\* sums, resp. the values, that getMovementById reports for the stored
\* movements, not the cents the setter stored.
AmountsInCurrencyUnits ==
  result # <<>> =>
    /\ result[1].summary # <<>> => SummaryInUnits(result[1].summary[1])
    /\ result[1].movements # <<>> =>
         \A i \in DOMAIN result[1].movements[1] :
           result[1].movements[1][i].monto
             = MovementJson(Stored(result[1].movements[1][i].id)).monto

\* ------------------------------------------------------------------------
\* Properties of the image path
\* ------------------------------------------------------------------------

Responded == pc = "responded" /\ result # <<>>

Response == result[1]

\* C12: every record the image path delivers has tipo 'egreso', as every
\* record of the heuristic engine has, and a movement created from it is an
\* expense.
ImagePathIsExpense ==
  Responded /\ Response.extractedData # <<>> =>
    /\ Response.extractedData[1].tipo = "egreso"
    /\ Response.movement # <<>> => Response.movement[1].tipo = "egreso"

\* the request that was answered, and whether it reached the saving of a
\* movement: a well-formed image, an answer of the vision model and, for
\* extractFromImage, autoCreateMovement
Asked == request[1]

ReachedExtraction == Asked.body.image = "base64" /\ Asked.outcome.ok

HasAmount == NumLess(Whole(0), Asked.outcome.data.monto)

\* C29: a movement is saved only for an extracted amount above 0 (and, in
\* extractFromImage, with autoCreateMovement); processAndCreate answers
\* 400 and saves nothing when the amount is not above 0; and in
\* extractFromImage, when the database fails while the movement is saved,
\* the answer is still the successful one, with movement = null and
\* nothing saved.
NoMovementWithoutAmount ==
  pc = "responded" =>
    /\ movements # <<>> =>
         /\ ReachedExtraction
         /\ HasAmount
         /\ Asked.route = "extractFromImage" => Asked.body.autoCreateMovement
    /\ (Asked.route = "processAndCreate" /\ ReachedExtraction /\ ~HasAmount) =>
         /\ Response.status = 400
         /\ Response.movement = <<>>
         /\ movements = <<>>
    /\ (Asked.route = "extractFromImage" /\ ReachedExtraction /\ ~Asked.dbUp) =>
         /\ Response.status = 200
         /\ Response.success
         /\ Response.movement = <<>>
         /\ movements = <<>>

\* C29 witness: processAndCreate was posted a well-formed image for which
\* the vision model answered the amount 0; the answer is 400 and no
\* movement was saved.
RefusedWithoutAmount ==
  /\ pc = "responded"
  /\ Asked.route = "processAndCreate"
  /\ ReachedExtraction
  /\ Asked.outcome.data.monto = Whole(0)
  /\ Asked.dbUp
  /\ Response.status = 400
  /\ movements = <<>>

\* ------------------------------------------------------------------------
\* Properties of the selection among amount candidates
\* ------------------------------------------------------------------------

\* c is preferred to s: by confidence when the confidences differ by more
\* than the tie window, by value otherwise
Beats(c, s) ==
  IF Abs(c.confidence - s.confidence) > TieWindow
  THEN c.confidence > s.confidence
  ELSE NumLess(s.value, c.value)

\* C10: the selection returns null only when there is no candidate;
\* otherwise it returns a candidate to which no other is preferred, where a
\* candidate of higher confidence is preferred when the confidences differ
\* by more than 10 and the one of larger value when they differ by at most
\* 10.
SelectionRule ==
  pc = "selected" =>
    IF candidates = <<>> THEN selected = <<>>
    ELSE /\ selected # <<>>
         /\ \E i \in DOMAIN candidates : candidates[i] = selected[1]
         /\ \A i \in DOMAIN candidates : ~Beats(candidates[i], selected[1])

\* C10 witness: from 500 at confidence 95 and 800 at confidence 90 the
\* selection returned 800.
ScenarioF ==
  /\ pc = "selected"
  /\ candidates = <<Candidate(Whole(500), ConfTotalLine), Candidate(Whole(800), 90)>>
  /\ selected = <<Candidate(Whole(800), 90)>>

====
